---- MODULE Spec2Model ----
(***************************************************************************)
(* A model of the FlowScript AST-to-IR code generator (llvm_generator.c). *)
(*                                                                         *)
(* The generator is a set of mutually recursive C functions over one       *)
(* mutable LLVMGeneratorState.  Each C function is an operator taking the  *)
(* generator state and returning [st |-> the state after the call,         *)
(* val |-> the LLVMValueRef returned].  The LLVM-C builder is modelled as  *)
(* an append-only store of functions, basic blocks and instructions: every *)
(* LLVMBuild* call appends one instruction at the builder's position.      *)
(*                                                                         *)
(* The fields diag and log of the state are observation only: diag is the  *)
(* sequence of diagnostics written to stderr, log records what each        *)
(* lowering routine saw on entry and left on exit.                         *)
(***************************************************************************)
EXTENDS Integers, Sequences, FiniteSets, TLC

VARIABLES state, ast_root, pc, symtab, last_op, run

vars == <<state, ast_root, pc, symtab, last_op, run>>

-----------------------------------------------------------------------------
(* Bounds of the model *)

MaxArgs == 1

MaxNest == 1

MaxScopes == 2

SYMBOL_TABLE_SIZE == 100

-----------------------------------------------------------------------------
(* LLVM types and values *)

I32 == [k |-> "int", w |-> 32, n |-> 0]

I1 == [k |-> "int", w |-> 1, n |-> 0]

VoidTy == [k |-> "void", w |-> 0, n |-> 0]

PtrTy == [k |-> "ptr", w |-> 0, n |-> 0]

FnTy(n) == [k |-> "fn", w |-> 0, n |-> n]

NullVal == [kind |-> "null"]

NullNode == [type |-> "NULL"]

ConstInt(ty, v) == [kind |-> "const", ty |-> ty, v |-> v]

ConstNull(ty) == [kind |-> "const", ty |-> ty, v |-> 0]

InstVal(id, ty) == [kind |-> "inst", id |-> id, ty |-> ty]

AllocaVal(id, elem) == [kind |-> "alloca", id |-> id, ty |-> PtrTy, elem |-> elem]

GlobalVal(gi, elem) == [kind |-> "global", id |-> gi, ty |-> PtrTy, elem |-> elem]

FuncVal(fi) == [kind |-> "func", id |-> fi, ty |-> PtrTy]

ParamVal(fi, i) == [kind |-> "param", id |-> fi, idx |-> i, ty |-> I32]

TypeOf(v) == v.ty

IsAAllocaInst(v) == v.kind = "alloca"

IsAGlobalVariable(v) == v.kind = "global"

R(st, val) == [st |-> st, val |-> val]

-----------------------------------------------------------------------------
(* The symbol table *)

Symbol(name, value, type, is_param) ==
    [name |-> name, value |-> value, type |-> type, is_param |-> is_param]

NoSymbol == [name |-> "", value |-> NullVal, type |-> VoidTy, is_param |-> 0,
             scope |-> 0, index |-> 0]

(* tables is the heap of SymbolTable objects, indexed by address 1..Len;   *)
(* parent 0 is the NULL parent.                                            *)
create_symbol_table(tables, parent) ==
    Append(tables, [entries |-> <<>>, parent |-> parent, freed |-> FALSE])

EntryIndex(entries, name) ==
    LET hits == {i \in 1..Len(entries) : entries[i].name = name}
    IN IF hits = {} THEN 0 ELSE CHOOSE i \in hits : \A j \in hits : i <= j

(* A faulty add_symbol: the redefinition test matches an entry of another name *)
add_symbol_WrongEntry(tables, st, name, value, type, is_param) ==
    IF st = 0 THEN tables
    ELSE IF Len(tables[st].entries) >= SYMBOL_TABLE_SIZE THEN tables
    ELSE LET others == {i \in 1..Len(tables[st].entries) : tables[st].entries[i].name # name}
             i == IF others = {} THEN 0 ELSE CHOOSE k \in others : \A j \in others : k <= j
         IN IF i # 0
            THEN [tables EXCEPT ![st].entries[i].value = value,
                                ![st].entries[i].type = type,
                                ![st].entries[i].is_param = is_param]
            ELSE [tables EXCEPT ![st].entries =
                                  Append(@, Symbol(name, value, type, is_param))]

(* A faulty add_symbol: no test of the capacity before the append *)
add_symbol_Unbounded(tables, st, name, value, type, is_param) ==
    IF st = 0 THEN tables
    ELSE LET i == EntryIndex(tables[st].entries, name)
         IN IF i # 0
            THEN [tables EXCEPT ![st].entries[i] = Symbol(name, value, type, is_param)]
            ELSE [tables EXCEPT ![st].entries =
                                  Append(@, Symbol(name, value, type, is_param))]

(* add_symbol writes "Symbol table overflow" to stderr *)
add_symbol_overflow(tables, st) ==
    st # 0 /\ Len(tables[st].entries) >= SYMBOL_TABLE_SIZE

add_symbol(tables, st, name, value, type, is_param) ==
    IF st = 0 THEN tables
    ELSE IF Len(tables[st].entries) >= SYMBOL_TABLE_SIZE THEN tables
    ELSE LET i == EntryIndex(tables[st].entries, name)
         IN IF i # 0
            THEN [tables EXCEPT ![st].entries[i] = Symbol(name, value, type, is_param)]
            ELSE [tables EXCEPT ![st].entries =
                                  Append(@, Symbol(name, value, type, is_param))]

RECURSIVE find_symbol(_, _, _)
find_symbol(tables, st, name) ==
    IF st = 0 THEN NoSymbol
    ELSE LET i == EntryIndex(tables[st].entries, name)
         IN IF i # 0
            THEN [name |-> name, value |-> tables[st].entries[i].value,
                  type |-> tables[st].entries[i].type,
                  is_param |-> tables[st].entries[i].is_param,
                  scope |-> st, index |-> i]
            ELSE find_symbol(tables, tables[st].parent, name)

free_symbol_table(tables, st) ==
    IF st = 0 THEN tables ELSE [tables EXCEPT ![st].freed = TRUE]

RECURSIVE ScopeChain(_, _)
ScopeChain(tables, st) ==
    IF st = 0 THEN {} ELSE {st} \cup ScopeChain(tables, tables[st].parent)

-----------------------------------------------------------------------------
(* The IR builder *)

Diag(st, msg) == [st EXCEPT !.diag = Append(@, msg)]

Log(st, e) == [st EXCEPT !.log = Append(@, e)]

AddFunction(st, name, nparams) ==
    [st EXCEPT !.funcs = Append(@, [name |-> name, nparams |-> nparams, blocks |-> <<>>])]

(* LLVMCreateBasicBlockInContext: a block with no parent function *)
CreateBasicBlock(st, label) ==
    [st EXCEPT !.blocks = Append(@, [parent |-> 0, label |-> label, insts |-> <<>>])]

(* LLVMAppendExistingBasicBlock *)
AppendExistingBasicBlock(st, fn, bb) ==
    [st EXCEPT !.blocks[bb].parent = fn, !.funcs[fn].blocks = Append(@, bb)]

(* LLVMAppendBasicBlockInContext: the new block is Len(blocks) afterwards *)
AppendBasicBlock(st, fn, label) ==
    AppendExistingBasicBlock(CreateBasicBlock(st, label), fn, Len(st.blocks) + 1)

PositionBuilderAtEnd(st, bb) == [st EXCEPT !.builder = bb]

GetInsertBlock(st) == st.builder

Terminators == {"br", "condbr", "ret", "retvoid"}

(* LLVMGetBasicBlockTerminator: the last instruction when it is a terminator *)
HasTerminator(st, bb) ==
    /\ Len(st.blocks[bb].insts) > 0
    /\ st.blocks[bb].insts[Len(st.blocks[bb].insts)].op \in Terminators

GetEntryBasicBlock(st, fn) == st.funcs[fn].blocks[1]

Inst(id, op, ty, args, blks, name) ==
    [id |-> id, op |-> op, ty |-> ty, args |-> args, blocks |-> blks, name |-> name]

(* A faulty Build: the builder stands before the first instruction of its block *)
Build_AtFront(st, op, ty, args, blks, name) ==
    [st EXCEPT !.blocks[st.builder].insts =
                   <<Inst(st.next_id, op, ty, args, blks, name)>> \o @,
               !.next_id = @ + 1]

(* LLVMBuild* at the builder's position: append to the insertion block *)
Build(st, op, ty, args, blks, name) ==
    [st EXCEPT !.blocks[st.builder].insts =
                   Append(@, Inst(st.next_id, op, ty, args, blks, name)),
               !.next_id = @ + 1]

(* The id of the instruction the last Build appended *)
LastId(st) == st.next_id - 1

(* A faulty BuildEntryAlloca: the slot is allocated where the builder stands *)
BuildEntryAlloca_AtBuilder(st, fn, ty, name) == Build(st, "alloca", ty, <<>>, <<>>, name)

(* LLVMBuildAlloca through the temporary builder of codegen_assignment and *)
(* codegen_for_loop: before the first instruction of the entry block, or   *)
(* at its end when it is empty.                                            *)
BuildEntryAlloca(st, fn, ty, name) ==
    LET entry == GetEntryBasicBlock(st, fn)
    IN [st EXCEPT !.blocks[entry].insts =
                      <<Inst(st.next_id, "alloca", ty, <<>>, <<>>, name)>> \o @,
                  !.next_id = @ + 1]

create_llvm_generator_state ==
    [funcs |-> <<>>, blocks |-> <<>>, globals |-> <<>>, builder |-> 0,
     next_id |-> 1,
     current_function |-> 0,
     piped_value |-> NullVal,
     current_loop_cond_bb |-> 0,
     current_loop_end_bb |-> 0,
     tables |-> create_symbol_table(<<>>, 0),
     global_symbols |-> 1,
     current_scope_symbols |-> 1,
     diag |-> <<>>, log |-> <<>>]

-----------------------------------------------------------------------------
(* The expression lowerer.  A C function that calls the lowerer and then   *)
(* goes on with the result is written as one operator per stretch of code  *)
(* between such calls; the later operators take the result, and the locals *)
(* that are still live, as parameters.                                     *)

RECURSIVE codegen_expr(_, _)
RECURSIVE codegen_statement_list_payload(_, _)

(* The id of the k-th instruction built after st *)
NextInst(st, k) == st.next_id + k - 1

(* The k-th basic block created after st *)
NextBlock(st, k) == Len(st.blocks) + k

ExprEvent(type, op, operand_null, result_null) ==
    [ev |-> "expr", type |-> type, op |-> op,
     operand_null |-> operand_null, result_null |-> result_null]

codegen_number(st, node) == R(st, ConstInt(I32, node.value))

(* codegen_identifier after find_symbol returned sym *)
identifier_load(st, node, sym) ==
    LET s0 == Log(st, [ev |-> "ident", name |-> node.name,
                       from |-> st.current_scope_symbols, found |-> sym.scope,
                       fn |-> st.current_function, value |-> sym.value])
    IN IF sym.scope = 0
       THEN R(Diag(s0, "Undeclared identifier"), NullVal)
       ELSE IF IsAAllocaInst(sym.value)
            THEN R(Build(s0, "load", sym.value.elem, <<sym.value>>, <<>>, node.name),
                   InstVal(NextInst(st, 1), sym.value.elem))
            ELSE R(s0, sym.value)

codegen_identifier(st, node) ==
    identifier_load(st, node, find_symbol(st.tables, st.current_scope_symbols, node.name))

ArithOps == {"OP_PLUS", "OP_MINUS", "OP_MULTIPLY", "OP_DIVIDE"}

CompareOps == {"OP_LT", "OP_GT", "OP_LTE", "OP_GTE", "OP_EQ", "OP_NEQ"}

(* A faulty BuildShortCircuitBr: the right operand sits on the other edge *)
BuildShortCircuitBr_Swapped(st, isand, l_bool, eval_R_block, merge_block) ==
    Build(st, "condbr", VoidTy, <<l_bool>>,
          IF isand THEN <<merge_block, eval_R_block>>
                   ELSE <<eval_R_block, merge_block>>, "")

(* LLVMBuildCondBr of OP_AND (true: evaluate right, false: merge) and of   *)
(* OP_OR (true: merge, false: evaluate right); blocks is <<true, false>>.  *)
BuildShortCircuitBr(st, isand, l_bool, eval_R_block, merge_block) ==
    Build(st, "condbr", VoidTy, <<l_bool>>,
          IF isand THEN <<eval_R_block, merge_block>>
                   ELSE <<merge_block, eval_R_block>>, "")

(* A faulty phi_right_block: the block the right operand started in *)
phi_right_block_Entry(st, eval_R_block) == eval_R_block

(* r_evaluated_block = LLVMGetInsertBlock(state->builder) after the right  *)
(* operand                                                                 *)
phi_right_block(st, eval_R_block) == GetInsertBlock(st)

(* The OP_AND / OP_OR arm from the return of codegen_expr on the right     *)
(* operand (rr) to the phi; first is the id of the first instruction of    *)
(* the right operand.                                                      *)
short_circuit_merge(rr, node, eval_L_block, eval_R_block, merge_block, first) ==
    LET isand == node.op = "OP_AND"
        R_val == IF rr.val = NullVal THEN ConstInt(I1, 0) ELSE rr.val
        r_bool == InstVal(NextInst(rr.st, 1), I1)
        r_evaluated_block == phi_right_block(rr.st, eval_R_block)
        phi == InstVal(NextInst(rr.st, 3), I1)
        s6 == Build(rr.st, "icmp_ne", I1, <<R_val, ConstNull(TypeOf(R_val))>>, <<>>, "tobool.r")
        s7 == Build(s6, "br", VoidTy, <<>>, <<merge_block>>, "")
        s8 == PositionBuilderAtEnd(s7, merge_block)
        s9 == Build(s8, "phi", I1,
                    IF isand THEN <<r_bool, ConstInt(I1, 0)>>
                             ELSE <<ConstInt(I1, 1), r_bool>>,
                    IF isand THEN <<r_evaluated_block, eval_L_block>>
                             ELSE <<eval_L_block, r_evaluated_block>>,
                    IF isand THEN "andtmp" ELSE "ortmp")
        s10 == Log(s9, [ev |-> "shortcircuit", op |-> node.op,
                        fn |-> rr.st.blocks[eval_L_block].parent,
                        evalL |-> eval_L_block, evalR |-> eval_R_block,
                        merge |-> merge_block, revaluated |-> r_evaluated_block,
                        first |-> first, last |-> rr.st.next_id - 1,
                        phi |-> phi.id])
    IN R(Log(s10, ExprEvent("BinaryOp", node.op, rr.val = NullVal, FALSE)), phi)

(* The OP_AND / OP_OR arm of codegen_binop, entered with the left operand  *)
(* L lowered and non-null, up to the lowering of the right operand.        *)
codegen_short_circuit(st, node, L) ==
    LET isand == node.op = "OP_AND"
        eval_L_block == GetInsertBlock(st)
        func == st.blocks[GetInsertBlock(st)].parent
        eval_R_block == NextBlock(st, 1)
        merge_block == NextBlock(st, 2)
        l_bool == InstVal(NextInst(st, 1), I1)
        s1 == AppendBasicBlock(st, func, IF isand THEN "and.evalR" ELSE "or.evalR")
        s2 == AppendBasicBlock(s1, func, IF isand THEN "and.merge" ELSE "or.merge")
        s3 == Build(s2, "icmp_ne", I1, <<L, ConstNull(TypeOf(L))>>, <<>>, "tobool.l")
        s4 == BuildShortCircuitBr(s3, isand, l_bool, eval_R_block, merge_block)
        s5 == PositionBuilderAtEnd(s4, eval_R_block)
    IN short_circuit_merge(codegen_expr(s5, node.right), node,
                           eval_L_block, eval_R_block, merge_block, NextInst(st, 3))

(* codegen_binop from the operand check on: rr is the right operand (null  *)
(* and not lowered yet for and/or), L the left value.                      *)
binop_emit(rr, node, L) ==
    LET short == node.op \in {"OP_AND", "OP_OR"}
    IN IF L = NullVal \/ (~short /\ rr.val = NullVal)
       THEN R(Log(Diag(rr.st, "Error in operand(s) for binary operation"),
                  ExprEvent("BinaryOp", node.op, TRUE, TRUE)), NullVal)
       ELSE IF node.op \in ArithOps
       THEN R(Log(Build(rr.st, node.op, TypeOf(L), <<L, rr.val>>, <<>>, ""),
                  ExprEvent("BinaryOp", node.op, FALSE, FALSE)),
              InstVal(NextInst(rr.st, 1), TypeOf(L)))
       ELSE IF node.op \in CompareOps
       THEN R(Log(Build(rr.st, node.op, I1, <<L, rr.val>>, <<>>, ""),
                  ExprEvent("BinaryOp", node.op, FALSE, FALSE)),
              InstVal(NextInst(rr.st, 1), I1))
       ELSE IF short
       THEN codegen_short_circuit(rr.st, node, L)
       ELSE R(Diag(rr.st, "Unknown binary operator"), NullVal)

(* codegen_binop after the left operand: the right one is lowered now      *)
(* unless the operator is and/or.                                          *)
binop_right(rl, node) ==
    binop_emit(IF node.op \notin {"OP_AND", "OP_OR"}
               THEN codegen_expr(rl.st, node.right)
               ELSE R(rl.st, NullVal),
               node, rl.val)

codegen_binop(st, node) == binop_right(codegen_expr(st, node.left), node)

unaryop_emit(ro, node) ==
    IF ro.val = NullVal
    THEN R(Log(ro.st, ExprEvent("UnaryOp", node.op, TRUE, TRUE)), NullVal)
    ELSE IF node.op = "OP_NOT"
    THEN R(Log(Build(ro.st, "icmp_eq", I1,
                     <<ro.val, ConstNull(TypeOf(ro.val))>>, <<>>, "nottmp"),
               ExprEvent("UnaryOp", node.op, FALSE, FALSE)),
           InstVal(NextInst(ro.st, 1), I1))
    ELSE IF node.op = "OP_MINUS"
    THEN R(Log(Build(ro.st, "neg", TypeOf(ro.val), <<ro.val>>, <<>>, "negtmp"),
               ExprEvent("UnaryOp", node.op, FALSE, FALSE)),
           InstVal(NextInst(ro.st, 1), TypeOf(ro.val)))
    ELSE R(Diag(ro.st, "Unknown unary operator"), NullVal)

codegen_unaryop(st, node) == unaryop_emit(codegen_expr(st, node.operand), node)

(* What one call of codegen_assignment did: the symbol find_symbol          *)
(* returned, the slot stored to, the value returned, and the module and    *)
(* the scopes before (st0, after the right-hand side) and after (st1).     *)
AssignEvent(st0, st1, node, sym, slot, result) ==
    [ev |-> "assign", name |-> node.var_name, expression |-> node.expression,
     found |-> sym.scope, target |-> sym.value,
     slot |-> slot, result |-> result,
     first |-> st0.next_id, next_id |-> st1.next_id,
     bindings_before |-> st0.tables, bindings_after |-> st1.tables,
     globals |-> Len(st1.globals) - Len(st0.globals),
     diags |-> Len(st1.diag) - Len(st0.diag),
     scope |-> st0.current_scope_symbols, fn |-> st0.current_function]

assignment_return(st0, st1, node, sym, slot, result) ==
    R(Log(st1, AssignEvent(st0, st1, node, sym, slot, result)), result)

(* The first assignment to a name: a slot in the entry block of the        *)
(* current function (a global outside any function), bound in the current  *)
(* scope, then the store.                                                  *)
assignment_declare(s0, node, sym, val_to_assign) ==
    LET val_type == TypeOf(val_to_assign)
        var_storage_ptr == IF s0.current_function # 0
                           THEN AllocaVal(NextInst(s0, 1), val_type)
                           ELSE GlobalVal(Len(s0.globals) + 1, val_type)
        s1 == IF s0.current_function # 0
              THEN BuildEntryAlloca(s0, s0.current_function, val_type, node.var_name)
              ELSE [s0 EXCEPT !.globals =
                        Append(@, [name |-> node.var_name, ty |-> val_type])]
        s2 == [s1 EXCEPT !.tables = add_symbol(@, s0.current_scope_symbols,
                                      node.var_name, var_storage_ptr, val_type, 0)]
        s3 == Log(s2, [ev |-> "slot", kind |-> "variable", name |-> node.var_name,
                       slot |-> var_storage_ptr, fn |-> s0.current_function,
                       at |-> GetInsertBlock(s0)])
        s4 == Build(s3, "store", VoidTy, <<val_to_assign, var_storage_ptr>>, <<>>, "")
    IN assignment_return(s0, Log(s4, ExprEvent("Assignment", "", FALSE, FALSE)),
                         node, sym,
                         IF s0.current_function # 0
                         THEN AllocaVal(NextInst(s0, 1), TypeOf(val_to_assign))
                         ELSE GlobalVal(Len(s0.globals) + 1, TypeOf(val_to_assign)),
                         val_to_assign)

(* A faulty assignment_reject: the diagnostic is written and the value is  *)
(* stored through the symbol all the same                                  *)
assignment_reject_Stores(s0, node, sym, val_to_assign) ==
    assignment_return(s0,
        Build(Diag(s0, "Cannot assign: not a modifiable variable"),
              "store", VoidTy, <<val_to_assign, sym.value>>, <<>>, ""),
        node, sym, sym.value, val_to_assign)

(* The symbol is neither an alloca nor a global variable: the diagnostic   *)
(* and return NULL.                                                        *)
assignment_reject(s0, node, sym, val_to_assign) ==
    assignment_return(s0, Diag(s0, "Cannot assign: not a modifiable variable"),
                      node, sym, NullVal, NullVal)

(* The store to a slot that find_symbol found *)
assignment_existing(s0, node, sym, val_to_assign) ==
    LET s1 == IF TypeOf(val_to_assign) # sym.value.elem
              THEN Diag(s0, "Type mismatch in assignment")
              ELSE s0
    IN assignment_return(s0,
           Log(Build(s1, "store", VoidTy, <<val_to_assign, sym.value>>, <<>>, ""),
               ExprEvent("Assignment", "", FALSE, FALSE)),
           node, sym, sym.value, val_to_assign)

(* codegen_assignment after the right-hand side and find_symbol *)
assignment_store(re, node, sym) ==
    IF re.val = NullVal
    THEN R(Log(Diag(re.st, "Expression for assignment failed to generate code"),
               ExprEvent("Assignment", "", TRUE, TRUE)), NullVal)
    ELSE IF sym.scope = 0
    THEN assignment_declare(re.st, node, sym, re.val)
    ELSE IF ~IsAAllocaInst(sym.value) /\ ~IsAGlobalVariable(sym.value)
    THEN assignment_reject(re.st, node, sym, re.val)
    ELSE assignment_existing(re.st, node, sym, re.val)

(* A faulty assignment_symbol: the name is never found *)
assignment_symbol_Unbound(st, node) == NoSymbol

(* find_symbol(state->current_scope_symbols, node->var_name) *)
assignment_symbol(st, node) ==
    find_symbol(st.tables, st.current_scope_symbols, node.var_name)

assignment_lookup(re, node) ==
    assignment_store(re, node, assignment_symbol(re.st, node))

codegen_assignment(st, node) == assignment_lookup(codegen_expr(st, node.expression), node)

-----------------------------------------------------------------------------
(* Function definition and call *)

ScopeEvent(construct, st0, st1) ==
    [ev |-> "scope", construct |-> construct,
     before |-> st0.current_scope_symbols, after |-> st1.current_scope_symbols,
     pushed |-> Len(st1.tables) > Len(st0.tables),
     failed |-> Len(st1.diag) > Len(st0.diag)]

LogScope(construct, st0, st1) == Log(st1, ScopeEvent(construct, st0, st1))

(* The parameter loop of codegen_func_def: one alloca, one store and one   *)
(* binding per formal parameter, at the builder's position in entry.       *)
RECURSIVE codegen_params(_, _, _, _)
codegen_params(st, fnode, func_val, i) ==
    IF i > Len(fnode.param_names) THEN st
    ELSE LET param_alloca == AllocaVal(NextInst(st, 1), I32)
             s1 == Build(st, "alloca", I32, <<>>, <<>>, fnode.param_names[i])
             s2 == Build(s1, "store", VoidTy,
                         <<ParamVal(func_val, i), param_alloca>>, <<>>, "")
             s3 == [s2 EXCEPT !.tables = add_symbol(@, st.current_scope_symbols,
                                           fnode.param_names[i], param_alloca, I32, 1)]
             s4 == Log(s3, [ev |-> "slot", kind |-> "param", name |-> fnode.param_names[i],
                            slot |-> param_alloca, fn |-> func_val,
                            at |-> GetInsertBlock(st)])
         IN codegen_params(s4, fnode, func_val, i + 1)

(* A faulty enter_function_scope: the scope is chained to the definition site *)
enter_function_scope_Nested(st) ==
    [st EXCEPT !.tables = create_symbol_table(st.tables, st.current_scope_symbols),
               !.current_scope_symbols = Len(st.tables) + 1]

(* state->current_scope_symbols = create_symbol_table(state->global_symbols) *)
enter_function_scope(st) ==
    [st EXCEPT !.tables = create_symbol_table(st.tables, st.global_symbols),
               !.current_scope_symbols = Len(st.tables) + 1]

FuncDefEvent(st, s10, fnode, func_val, fnscope, parent) ==
    [ev |-> "func_def", name |-> fnode.func_name, fn |-> func_val,
     fnscope |-> fnscope, parent |-> parent,
     scope_before |-> st.current_scope_symbols,
     scope_after |-> s10.current_scope_symbols,
     block_before |-> GetInsertBlock(st),
     block_after |-> GetInsertBlock(s10),
     func_before |-> st.current_function,
     func_after |-> s10.current_function,
     piped_on_entry |-> st.piped_value,
     failed |-> Len(s10.diag) > Len(st.diag)]

(* The default return of a body that ends open *)
func_def_default_return(s7) ==
    IF GetInsertBlock(s7) # 0 /\ ~HasTerminator(s7, GetInsertBlock(s7))
    THEN Build(s7, "ret", VoidTy, <<ConstInt(I32, 0)>>, <<>>, "")
    ELSE s7

(* A faulty func_def_restore: the builder stays in the function just emitted *)
func_def_restore_BuilderLeft(s8, preserved_insert_block, preserved_current_func, preserved_current_scope) ==
    [s8 EXCEPT !.current_function = preserved_current_func,
               !.tables = free_symbol_table(@, s8.current_scope_symbols),
               !.current_scope_symbols = preserved_current_scope]

(* builder, current function and scope go back to the preserved ones *)
func_def_restore(s8, preserved_insert_block, preserved_current_func, preserved_current_scope) ==
    [PositionBuilderAtEnd(s8, preserved_insert_block)
        EXCEPT !.current_function = preserved_current_func,
               !.tables = free_symbol_table(@, s8.current_scope_symbols),
               !.current_scope_symbols = preserved_current_scope]

(* codegen_func_def from the return of the body's statement list (s7) *)
func_def_end(s7, st, s2, fnode, func_val, fnscope, parent) ==
    LogScope("func_def", st,
             Log(func_def_restore(func_def_default_return(s7), GetInsertBlock(s2),
                                  s2.current_function, s2.current_scope_symbols),
                 FuncDefEvent(st,
                              func_def_restore(func_def_default_return(s7),
                                               GetInsertBlock(s2), s2.current_function,
                                               s2.current_scope_symbols),
                              fnode, func_val, fnscope, parent)))

(* codegen_func_def from the parameters bound (s6) to the body *)
func_def_body(s6, st, s2, fnode, func_val, fnscope) ==
    func_def_end(IF fnode.body_stmts_node.type = "StatementList"
                 THEN codegen_statement_list_payload(s6, fnode.body_stmts_node.statements)
                 ELSE s6,
                 st, s2, fnode, func_val, fnscope, s6.tables[fnscope].parent)

(* codegen_func_def from the function registered (s2): the preserved       *)
(* values are read from s2, the scope is pushed and the entry block opened *)
func_def_enter(s2, st, fnode, func_val) ==
    LET s3 == enter_function_scope([s2 EXCEPT !.current_function = func_val])
        s4 == AppendBasicBlock(s3, func_val, "entry")
        s5 == PositionBuilderAtEnd(s4, NextBlock(s2, 1))
    IN func_def_body(codegen_params(s5, fnode, func_val, 1), st, s2, fnode, func_val,
                     Len(s2.tables) + 1)

(* A faulty register_scope: the handle is bound in the scope of the        *)
(* definition site                                                         *)
register_scope_DefinitionSite(st) == st.current_scope_symbols

(* The scope the function's handle is added to *)
register_scope(st) == st.global_symbols

(* LLVMAddFunction, then add_symbol of the name in the global scope *)
register_function(st, fnode) ==
    [AddFunction(st, fnode.func_name, Len(fnode.param_names))
        EXCEPT !.tables = add_symbol(@, register_scope(st), fnode.func_name,
                                     FuncVal(Len(st.funcs) + 1),
                                     FnTy(Len(fnode.param_names)), 0)]

codegen_func_def(st, fnode) ==
    R(func_def_enter(register_function(st, fnode), st, fnode, Len(st.funcs) + 1),
      FuncVal(Len(st.funcs) + 1))

(* The argument loop of codegen_func_call *)
RECURSIVE codegen_call_args(_, _, _, _)
(* A faulty call_args_next: the argument is put in front of the earlier ones *)
call_args_next_Prepend(r, fnode, i, call_args_llvm) ==
    IF r.val = NullVal
    THEN [st |-> Diag(r.st, "Argument for function failed to generate code"),
          val |-> call_args_llvm, ok |-> FALSE]
    ELSE codegen_call_args(r.st, fnode, i + 1, <<r.val>> \o call_args_llvm)

(* call_args_llvm[current_arg_idx] = codegen_expr(...); the next argument *)
call_args_next(r, fnode, i, call_args_llvm) ==
    IF r.val = NullVal
    THEN [st |-> Diag(r.st, "Argument for function failed to generate code"),
          val |-> call_args_llvm, ok |-> FALSE]
    ELSE codegen_call_args(r.st, fnode, i + 1, Append(call_args_llvm, r.val))

codegen_call_args(st, fnode, i, call_args_llvm) ==
    IF i > Len(fnode.args) THEN [st |-> st, val |-> call_args_llvm, ok |-> TRUE]
    ELSE call_args_next(codegen_expr(st, fnode.args[i]), fnode, i, call_args_llvm)

(* A faulty actual_arg_count: the piped leading value is not counted *)
actual_arg_count_ExplicitOnly(fnode, explicit_piped_input_val) == Len(fnode.args)

(* fnode->arg_count + (explicit_piped_input_val ? 1 : 0) *)
actual_arg_count(fnode, explicit_piped_input_val) ==
    Len(fnode.args) + (IF explicit_piped_input_val # NullVal THEN 1 ELSE 0)

CallEvent(st0, st1, fnode, piped, callee, outcome, call) ==
    [ev |-> "call", name |-> fnode.func_name,
     expected |-> IF callee.type.k = "fn" THEN callee.type.n ELSE 0,
     explicit |-> Len(fnode.args), piped |-> piped # NullVal, outcome |-> outcome,
     first |-> st0.next_id, last |-> st1.next_id - 1, call |-> call,
     diags |-> Len(st1.diag) - Len(st0.diag),
     result_null |-> outcome # "emitted",
     piped_slot |-> st0.piped_value,
     callee |-> callee.value,
     local |-> find_symbol(st0.tables, st0.current_scope_symbols, fnode.func_name),
     global_scope |-> st0.global_symbols,
     funcs |-> Len(st0.funcs),
     piped_val |-> piped, args |-> fnode.args,
     slot |-> st0.piped_value, fn |-> st0.current_function]

LogCall(st0, st1, fnode, piped, callee, outcome, call) ==
    Log(st1, CallEvent(st0, st1, fnode, piped, callee, outcome, call))

(* codegen_func_call from the end of the argument loop (ra) *)
func_call_emit(ra, st, fnode, explicit_piped_input_val, sym) ==
    IF ~ra.ok
    THEN R(LogCall(st, ra.st, fnode, explicit_piped_input_val, sym, "argfail", 0),
           NullVal)
    ELSE R(LogCall(st, Build(ra.st, "call", I32, ra.val, <<>>, fnode.func_name),
                   fnode, explicit_piped_input_val, sym, "emitted", NextInst(ra.st, 1)),
           InstVal(NextInst(ra.st, 1), I32))

(* codegen_func_call after find_symbol returned sym *)
func_call_check(st, fnode, explicit_piped_input_val, sym) ==
    IF sym.scope = 0
    THEN R(LogCall(st, Diag(st, "Call to undefined function"), fnode,
                   explicit_piped_input_val, sym, "undefined", 0), NullVal)
    ELSE IF sym.type.k # "fn"
    THEN R(LogCall(st, Diag(st, "Symbol is not a function"), fnode,
                   explicit_piped_input_val, sym, "notfunc", 0), NullVal)
    ELSE IF sym.type.n # actual_arg_count(fnode, explicit_piped_input_val)
    THEN R(LogCall(st, Diag(st, "Incorrect number of arguments"), fnode,
                   explicit_piped_input_val, sym, "arity", 0), NullVal)
    ELSE func_call_emit(codegen_call_args(st, fnode, 1,
                                          IF explicit_piped_input_val # NullVal
                                          THEN <<explicit_piped_input_val>> ELSE <<>>),
                        st, fnode, explicit_piped_input_val, sym)

(* A faulty callee_scope: the callee is looked up from the innermost scope *)
callee_scope_Innermost(st) == st.current_scope_symbols

(* The scope find_symbol starts from in codegen_func_call *)
callee_scope(st) == st.global_symbols

codegen_func_call(st, fnode, explicit_piped_input_val) ==
    func_call_check(st, fnode, explicit_piped_input_val,
                    find_symbol(st.tables, callee_scope(st), fnode.func_name))

-----------------------------------------------------------------------------
(* The pipeline coordinator *)

(* A faulty restore_piped_value: the left value stays in the slot *)
restore_piped_value_Skipped(st, preserved_piped_value_in_state) == st

(* state->piped_value = preserved_piped_value_in_state *)
restore_piped_value(st, preserved_piped_value_in_state) ==
    [st EXCEPT !.piped_value = preserved_piped_value_in_state]

PipelineEvent(st, s1, s2, pnode, lhs_val_llvm, result) ==
    [ev |-> "pipeline", left |-> pnode.left_expr.type, rhs |-> pnode.right_op.type,
     piped_before |-> st.piped_value, piped_after |-> s2.piped_value,
     piped_inside |-> lhs_val_llvm,
     left_null |-> lhs_val_llvm = NullVal,
     result_null |-> result = NullVal,
     blocks_before |-> Len(s1.blocks), blocks_after |-> Len(s2.blocks),
     left_diags |-> Len(s1.diag) - Len(st.diag),
     diags |-> Len(s2.diag) - Len(s1.diag),
     result |-> result, left_end |-> Len(s1.log), start |-> Len(st.log) + 1]

(* codegen_pipeline from the return of the right operator (rr) *)
pipeline_end(rr, st, s1, pnode, lhs_val_llvm, preserved_piped_value_in_state) ==
    R(Log(restore_piped_value(rr.st, preserved_piped_value_in_state),
          PipelineEvent(st, s1,
                        restore_piped_value(rr.st, preserved_piped_value_in_state),
                        pnode, lhs_val_llvm, rr.val)),
      rr.val)

(* A faulty pipeline_call_input: a missing left value is handed to the     *)
(* call as a null constant                                                 *)
pipeline_call_input_Placeholder(lhs_val_llvm) ==
    IF lhs_val_llvm = NullVal THEN ConstNull(I32) ELSE lhs_val_llvm

(* The explicit_piped_input_val codegen_pipeline passes to the call *)
pipeline_call_input(lhs_val_llvm) == lhs_val_llvm

(* The switch over the right operator, with the left value in the slot (s1) *)
pipeline_right(s1, st, pnode, lhs_val_llvm, preserved_piped_value_in_state) ==
    pipeline_end(IF pnode.right_op.type = "FunctionCall"
                 THEN codegen_func_call(s1, pnode.right_op,
                                        pipeline_call_input(lhs_val_llvm))
                 ELSE IF pnode.right_op.type \in {"IfElse", "PrintCall"}
                 THEN codegen_expr(s1, pnode.right_op)
                 ELSE IF pnode.right_op.type = "ForLoop"
                 THEN codegen_expr(s1, [pnode.right_op EXCEPT
                                           !.range_expr = pnode.left_expr])
                 ELSE R(Diag(s1, "Invalid AST node type on RHS of pipeline"), NullVal),
                 st, s1, pnode, lhs_val_llvm, preserved_piped_value_in_state)

(* A faulty pipeline_slot: a left side without a value leaves the slot as  *)
(* it was                                                                  *)
pipeline_slot_KeepWhenNull(st, lhs_val_llvm) ==
    IF lhs_val_llvm = NullVal THEN st.piped_value ELSE lhs_val_llvm

(* state->piped_value = lhs_val_llvm *)
pipeline_slot(st, lhs_val_llvm) == lhs_val_llvm

(* codegen_pipeline after the left side (rl) *)
pipeline_left(rl, st, pnode) ==
    pipeline_right([rl.st EXCEPT !.piped_value = pipeline_slot(rl.st, rl.val)],
                   st, pnode, rl.val, rl.st.piped_value)

codegen_pipeline(st, pnode) == pipeline_left(codegen_expr(st, pnode.left_expr), st, pnode)

-----------------------------------------------------------------------------
(* Conditional, range, loop, return, print *)

(* A faulty BranchIfOpen: the branch is emitted without looking for a terminator *)
BranchIfOpen_Unchecked(st, bb) == Build(st, "br", VoidTy, <<>>, <<bb>>, "")

(* "if not already terminated, branch to bb" at the end of an arm or body *)
BranchIfOpen(st, bb) ==
    IF GetInsertBlock(st) # 0 /\ ~HasTerminator(st, GetInsertBlock(st))
    THEN Build(st, "br", VoidTy, <<>>, <<bb>>, "")
    ELSE st

IfElseEvent(s, fn, cond_block, then_bb, else_bb, merge_bb, then_end, else_end) ==
    [ev |-> "if_else", fn |-> fn, cond_block |-> cond_block, then_bb |-> then_bb,
     else_bb |-> else_bb, merge_bb |-> merge_bb,
     then_end |-> then_end, else_end |-> else_end,
     builder |-> GetInsertBlock(s), next_id |-> s.next_id,
     merge_insts |-> Len(s.blocks[merge_bb].insts)]

(* return NULL: the conditional has no value *)
if_else_return(s, fn, cond_block, then_bb, else_bb, merge_bb, then_end, else_end) ==
    R(Log(s, IfElseEvent(s, fn, cond_block, then_bb, else_bb, merge_bb, then_end,
                         else_end)),
      NullVal)

(* the merge block is appended and becomes the insertion point *)
if_else_merge(s12, fn, cond_block, then_bb, else_bb, merge_bb, then_end, else_end) ==
    if_else_return(PositionBuilderAtEnd(AppendExistingBasicBlock(s12, fn, merge_bb),
                                        merge_bb),
                   fn, cond_block, then_bb, else_bb, merge_bb, then_end, else_end)

(* from the return of the else list (s11) *)
if_else_else_end(s11, fn, cond_block, then_bb, else_bb, merge_bb, then_end) ==
    if_else_merge(BranchIfOpen(s11, merge_bb), fn, cond_block, then_bb, else_bb,
                  merge_bb, then_end, GetInsertBlock(s11))

(* from the end of the then arm (s8): the else arm when there is one *)
if_else_else(s8, inode, fn, cond_block, then_bb, else_bb, merge_bb, then_end) ==
    IF inode.else_stmts_node # NullNode
    THEN if_else_else_end(
             IF inode.else_stmts_node.type = "StatementList"
             THEN codegen_statement_list_payload(
                      PositionBuilderAtEnd(AppendExistingBasicBlock(s8, fn, else_bb),
                                           else_bb),
                      inode.else_stmts_node.statements)
             ELSE PositionBuilderAtEnd(AppendExistingBasicBlock(s8, fn, else_bb), else_bb),
             fn, cond_block, then_bb, else_bb, merge_bb, then_end)
    ELSE if_else_merge(s8, fn, cond_block, then_bb, 0, merge_bb, then_end, 0)

(* from the return of the then list (s7) *)
if_else_then_end(s7, inode, fn, cond_block, then_bb, else_bb, merge_bb) ==
    if_else_else(BranchIfOpen(s7, merge_bb), inode, fn, cond_block, then_bb, else_bb,
                 merge_bb, GetInsertBlock(s7))

(* A faulty if_else_false_target: the false edge always goes to the merge block *)
if_else_false_target_Merge(inode, else_bb, merge_bb) == merge_bb

(* inode->else_stmts_node ? else_bb : merge_bb *)
if_else_false_target(inode, else_bb, merge_bb) ==
    IF inode.else_stmts_node # NullNode THEN else_bb ELSE merge_bb

(* from the condition as an i1 (s1): the three blocks, the branch, the     *)
(* then list                                                               *)
if_else_then(s1, inode, condition_val_llvm) ==
    LET then_bb == NextBlock(s1, 1)
        else_bb == NextBlock(s1, 2)
        merge_bb == NextBlock(s1, 3)
        s2 == AppendBasicBlock(s1, s1.current_function, "then")
        s3 == CreateBasicBlock(s2, "else")
        s4 == CreateBasicBlock(s3, "ifcont")
        s5 == Build(s4, "condbr", VoidTy, <<condition_val_llvm>>,
                    <<then_bb, if_else_false_target(inode, else_bb, merge_bb)>>, "")
        s6 == PositionBuilderAtEnd(s5, then_bb)
    IN IF s1.current_function = 0
       THEN R(Diag(s1, "If statement found outside of a function context"), NullVal)
       ELSE if_else_then_end(
                IF inode.then_stmts_node.type = "StatementList"
                THEN codegen_statement_list_payload(s6, inode.then_stmts_node.statements)
                ELSE s6,
                inode, s1.current_function, GetInsertBlock(s1), then_bb, else_bb, merge_bb)

(* codegen_if_else after the condition (rc) *)
if_else_condition(rc, inode) ==
    IF rc.val = NullVal THEN R(rc.st, NullVal)
    ELSE IF TypeOf(rc.val) # I1
    THEN if_else_then(Build(rc.st, "icmp_ne", I1, <<rc.val, ConstNull(TypeOf(rc.val))>>,
                            <<>>, "ifcond_tobool"),
                      inode, InstVal(NextInst(rc.st, 1), I1))
    ELSE if_else_then(rc.st, inode, rc.val)

codegen_if_else(st, inode) ==
    if_else_condition(codegen_expr(st, inode.condition_expr), inode)

range_check(rs, re) ==
    IF rs.val = NullVal \/ re.val = NullVal
    THEN R(Diag(re.st, "Error evaluating start/end expressions within range node"),
           NullVal)
    ELSE R(re.st, NullVal)

range_end(rs, rnode) == range_check(rs, codegen_expr(rs.st, rnode.end))

codegen_range(st, rnode) == range_end(codegen_expr(st, rnode.start), rnode)

(* A faulty leave_loop_scope: the loop scope is freed but stays current *)
leave_loop_scope_NoRestore(st, loop_scope, old_scope) ==
    [st EXCEPT !.tables = free_symbol_table(st.tables, loop_scope)]

(* The end of codegen_for_loop: the old scope is current again and the     *)
(* loop scope is freed.                                                    *)
leave_loop_scope(st, loop_scope, old_scope) ==
    [st EXCEPT !.current_scope_symbols = old_scope,
               !.tables = free_symbol_table(st.tables, loop_scope)]

(* The locals of codegen_for_loop that live across the body *)
LoopFrame(s0, current_llvm_function, loop_var_alloca, loop_scope, old_scope, start_val_llvm, end_val_llvm) ==
    [fn |-> current_llvm_function, loop_var_alloca |-> loop_var_alloca,
     loop_scope |-> loop_scope, old_scope |-> old_scope,
     start_val_llvm |-> start_val_llvm, end_val_llvm |-> end_val_llvm,
     old_continue_target |-> s0.current_loop_cond_bb,
     old_break_target |-> s0.current_loop_end_bb,
     loop_cond_bb |-> NextBlock(s0, 1), loop_body_bb |-> NextBlock(s0, 2),
     loop_inc_bb |-> NextBlock(s0, 3), loop_end_bb |-> NextBlock(s0, 4),
     current_iter_val |-> InstVal(NextInst(s0, 4), I32),
     old_piped_val_for_body |-> s0.piped_value,
     body_first |-> NextInst(s0, 7)]

(* from the end of the body with the piped value restored (s18): the       *)
(* increment block, the end block, scope and loop targets restored         *)
for_loop_latch(s18, f) ==
    LET s19 == BranchIfOpen(s18, f.loop_inc_bb)
        s20 == PositionBuilderAtEnd(s19, f.loop_inc_bb)
        s21 == Build(s20, "load", I32, <<f.loop_var_alloca>>, <<>>, "val.beforeinc")
        s22 == Build(s21, "OP_PLUS", I32,
                     <<InstVal(NextInst(s20, 1), I32), ConstInt(I32, 1)>>, <<>>, "next.val")
        s23 == Build(s22, "store", VoidTy,
                     <<InstVal(NextInst(s20, 2), I32), f.loop_var_alloca>>, <<>>, "")
        s24 == Build(s23, "br", VoidTy, <<>>, <<f.loop_cond_bb>>, "")
        s25 == PositionBuilderAtEnd(s24, f.loop_end_bb)
    IN [leave_loop_scope(s25, f.loop_scope, f.old_scope)
           EXCEPT !.current_loop_cond_bb = f.old_continue_target,
                  !.current_loop_end_bb = f.old_break_target]

(* from the return of the body's statement list (s17) *)
for_loop_body_end(s17, st, f) ==
    R(LogScope("for_loop", st,
               Log(for_loop_latch([s17 EXCEPT !.piped_value = f.old_piped_val_for_body], f),
                   [ev |-> "for_loop", fn |-> f.fn,
                    slot |-> f.loop_var_alloca, cond |-> f.loop_cond_bb,
                    body |-> f.loop_body_bb, inc |-> f.loop_inc_bb, end |-> f.loop_end_bb,
                    body_end |-> GetInsertBlock(s17),
                    start |-> f.start_val_llvm, stop |-> f.end_val_llvm,
                    item |-> f.current_iter_val,
                    body_first |-> f.body_first, body_last |-> s17.next_id - 1])),
      NullVal)

(* A faulty loop_predicate: the end bound is included *)
loop_predicate_Inclusive == "OP_LTE"

(* LLVMIntSLT: the loop runs while the loop variable is below the end bound *)
loop_predicate == "OP_LT"

(* from the store of the start value (s4): the four blocks, the condition  *)
(* block, and the body with the item in the piped-value slot               *)
for_loop_blocks(s4, st, fnode, f) ==
    LET s5 == AppendBasicBlock(s4, f.fn, "loop.cond")
        s6 == AppendBasicBlock(s5, f.fn, "loop.body")
        s7 == AppendBasicBlock(s6, f.fn, "loop.inc")
        s8 == AppendBasicBlock(s7, f.fn, "loop.end")
        s9 == [s8 EXCEPT !.current_loop_cond_bb = f.loop_inc_bb,
                         !.current_loop_end_bb = f.loop_end_bb]
        s10 == Build(s9, "br", VoidTy, <<>>, <<f.loop_cond_bb>>, "")
        s11 == PositionBuilderAtEnd(s10, f.loop_cond_bb)
        s12 == Build(s11, "load", I32, <<f.loop_var_alloca>>, <<>>, "loopvar.val")
        s13 == Build(s12, loop_predicate, I1, <<f.current_iter_val, f.end_val_llvm>>, <<>>,
                     "loopcond")
        s14 == Build(s13, "condbr", VoidTy, <<InstVal(NextInst(s4, 3), I1)>>,
                     <<f.loop_body_bb, f.loop_end_bb>>, "")
        s15 == PositionBuilderAtEnd(s14, f.loop_body_bb)
        s16 == [s15 EXCEPT !.piped_value = f.current_iter_val]
    IN for_loop_body_end(
           IF fnode.body_stmts_node.type = "StatementList"
           THEN codegen_statement_list_payload(s16, fnode.body_stmts_node.statements)
           ELSE s16,
           st, f)

(* from both bounds lowered and non-null (s0): the slot of the loop        *)
(* variable in the entry block, the loop scope, the store of the start     *)
for_loop_slot(s0, st, fnode, start_val_llvm, end_val_llvm) ==
    LET loop_var_alloca == AllocaVal(NextInst(s0, 1), I32)
        old_scope == s0.current_scope_symbols
        loop_scope == Len(s0.tables) + 1
        s1 == BuildEntryAlloca(s0, s0.current_function, I32, fnode.loop_var_name)
        s2 == [s1 EXCEPT !.tables = add_symbol(create_symbol_table(@, old_scope),
                                      loop_scope, fnode.loop_var_name,
                                      loop_var_alloca, I32, 0),
                         !.current_scope_symbols = loop_scope]
        s3 == Log(s2, [ev |-> "slot", kind |-> "loopvar", name |-> fnode.loop_var_name,
                       slot |-> loop_var_alloca, fn |-> s0.current_function,
                       at |-> GetInsertBlock(s0)])
    IN for_loop_blocks(Build(s3, "store", VoidTy, <<start_val_llvm, loop_var_alloca>>,
                             <<>>, ""),
                       st, fnode,
                       LoopFrame(s0, s0.current_function, loop_var_alloca, loop_scope,
                                 old_scope, start_val_llvm, end_val_llvm))

(* after the end bound (re) *)
for_loop_bounds(rs, re, st, fnode) ==
    IF rs.val = NullVal \/ re.val = NullVal
    THEN R(LogScope("for_loop", st,
                    Diag(re.st, "Could not evaluate start or end expressions for the for-loop range")),
           NullVal)
    ELSE for_loop_slot(re.st, st, fnode, rs.val, re.val)

(* after the start bound (rs) *)
for_loop_end_bound(rs, st, fnode) ==
    for_loop_bounds(rs, codegen_expr(rs.st, fnode.range_expr.end), st, fnode)

codegen_for_loop(st, fnode) ==
    IF st.current_function = 0
    THEN R(LogScope("for_loop", st, Diag(st, "For loop found outside of a function")),
           NullVal)
    ELSE IF fnode.range_expr.type # "Range"
    THEN R(LogScope("for_loop", st, Diag(st, "For loop requires a valid range_expr")),
           NullVal)
    ELSE for_loop_end_bound(codegen_expr(st, fnode.range_expr.start), st, fnode)

(* codegen_return after the value (rv) *)
return_emit(rv) ==
    IF rv.val = NullVal
    THEN R(Log(rv.st, ExprEvent("Return", "", TRUE, TRUE)), NullVal)
    ELSE R(Log(Build(rv.st, "ret", VoidTy, <<rv.val>>, <<>>, ""),
               ExprEvent("Return", "", FALSE, FALSE)),
           InstVal(NextInst(rv.st, 1), VoidTy))

codegen_return(st, rnode) ==
    IF st.current_function = 0
    THEN R(Diag(st, "Return statement found outside of a function"), NullVal)
    ELSE IF rnode.value # NullNode
    THEN return_emit(codegen_expr(st, rnode.value))
    ELSE R(Build(st, "retvoid", VoidTy, <<>>, <<>>, ""), InstVal(NextInst(st, 1), VoidTy))

(* LLVMGetNamedFunction(module, "printf"): 0 when the module has none *)
GetNamedFunction(st, name) ==
    LET hits == {i \in 1..Len(st.funcs) : st.funcs[i].name = name}
    IN IF hits = {} THEN 0 ELSE CHOOSE i \in hits : \A j \in hits : i <= j

get_printf_function(st) ==
    IF GetNamedFunction(st, "printf") # 0
    THEN R(st, FuncVal(GetNamedFunction(st, "printf")))
    ELSE R(AddFunction(st, "printf", 1), FuncVal(Len(st.funcs) + 1))

(* LLVMBuildGlobalStringPtr: a new private global holding the string *)
BuildGlobalStringPtr(st, name) ==
    [st EXCEPT !.globals = Append(@, [name |-> name, ty |-> PtrTy])]

PrintEvent(st, pnode, arg_to_print_llvm, first, s, null) ==
    [ev |-> "print", explicit |-> pnode.expression # NullNode,
     expr |-> pnode.expression,
     piped |-> st.piped_value, arg |-> arg_to_print_llvm,
     fn |-> st.current_function,
     call |-> IF null THEN 0 ELSE s.next_id - 1,
     result_null |-> null,
     first |-> first, last |-> s.next_id - 1,
     globals |-> Len(s.globals) - Len(st.globals),
     diags |-> Len(s.diag) - Len(st.diag)]

LogPrint(st, pnode, arg_to_print_llvm, first, s, null) ==
    Log(s, PrintEvent(st, pnode, arg_to_print_llvm, first, s, null))

(* printf, the diagnostic for a type that print does not handle, the       *)
(* format string and the call                                              *)
print_call_printf(s0, arg_to_print_llvm) ==
    LET known == TypeOf(arg_to_print_llvm).k = "int"
        format_str_val == GlobalVal(Len(s0.globals) + 1, PtrTy)
        s1 == IF known THEN get_printf_function(s0).st
              ELSE Diag(get_printf_function(s0).st,
                        "print() called with unhandled LLVM type")
        s2 == BuildGlobalStringPtr(s1, IF known THEN ".fmt_int_ln" ELSE ".fmt_unknown_ln")
    IN Build(s2, "call", I32,
             IF known THEN <<format_str_val, arg_to_print_llvm>>
                      ELSE <<format_str_val>>, <<>>, "printf")

(* codegen_print_call after the argument (re) *)
print_emit(re, st, pnode) ==
    IF re.val = NullVal
    THEN R(Log(LogPrint(st, pnode, re.val, re.st.next_id, re.st, TRUE),
               ExprEvent("PrintCall", "", TRUE, TRUE)), NullVal)
    ELSE R(Log(LogPrint(st, pnode, re.val, re.st.next_id,
                        print_call_printf(re.st, re.val), FALSE),
               ExprEvent("PrintCall", "", FALSE, FALSE)),
           InstVal(NextInst(re.st, 1), I32))

(* A faulty print_argument: the piped value is taken before the expression *)
print_argument_PipedFirst(pnode, piped_value) ==
    IF piped_value # NullVal THEN "piped"
    ELSE IF pnode.expression # NullNode THEN "expression" ELSE "none"

(* Where codegen_print_call takes its argument from *)
print_argument(pnode, piped_value) ==
    IF pnode.expression # NullNode THEN "expression"
    ELSE IF piped_value # NullVal THEN "piped" ELSE "none"

codegen_print_call(st, pnode) ==
    IF print_argument(pnode, st.piped_value) = "none"
    THEN R(LogPrint(st, pnode, NullVal, st.next_id,
                    Diag(st, "print() called with no argument"), TRUE), NullVal)
    ELSE print_emit(IF print_argument(pnode, st.piped_value) = "expression"
                    THEN codegen_expr(st, pnode.expression)
                    ELSE R(st, st.piped_value),
                    st, pnode)

-----------------------------------------------------------------------------
(* Dispatch and the statement lowerer *)

(* A faulty expr_call_input: a call lowered as an expression is handed    *)
(* the value in the piped-value slot                                       *)
expr_call_input_Slot(st) == st.piped_value

(* The explicit_piped_input_val codegen_expr passes to codegen_func_call *)
expr_call_input(st) == NullVal

codegen_expr(st, node) ==
    IF node = NullNode THEN R(st, NullVal)
    ELSE IF node.type = "Number" THEN codegen_number(st, node)
    ELSE IF node.type = "Identifier" THEN codegen_identifier(st, node)
    ELSE IF node.type = "BinaryOp" THEN codegen_binop(st, node)
    ELSE IF node.type = "UnaryOp" THEN codegen_unaryop(st, node)
    ELSE IF node.type = "Assignment" THEN codegen_assignment(st, node)
    ELSE IF node.type = "FunctionCall"
    THEN codegen_func_call(st, node, expr_call_input(st))
    ELSE IF node.type = "Pipeline" THEN codegen_pipeline(st, node)
    ELSE IF node.type = "IfElse" THEN codegen_if_else(st, node)
    ELSE IF node.type = "PrintCall" THEN codegen_print_call(st, node)
    ELSE IF node.type = "Range" THEN codegen_range(st, node)
    ELSE R(Diag(st, "AST node type is not a recognized expression type"), NullVal)

StmtEvent(st, stmt_node, i, list, len) ==
    [ev |-> "stmt", type |-> stmt_node.type, index |-> i,
     list |-> list, len |-> len,
     fn |-> st.current_function, block |-> GetInsertBlock(st),
     first |-> st.next_id, blocks |-> Len(st.blocks),
     diags |-> Len(st.diag)]

(* The switch of codegen_statement_list_payload on one statement; done is  *)
(* TRUE when the loop is left (case NODE_RETURN).                          *)
codegen_statement(s0, stmt_node) ==
    IF stmt_node.type = "FunctionDef"
    THEN [st |-> codegen_func_def(s0, stmt_node).st, done |-> FALSE]
    ELSE IF stmt_node.type = "Return"
    THEN [st |-> codegen_return(s0, stmt_node).st, done |-> TRUE]
    ELSE IF stmt_node.type = "ForLoop"
    THEN [st |-> codegen_for_loop(s0, stmt_node).st, done |-> FALSE]
    ELSE IF stmt_node.type = "StatementList"
    THEN [st |-> codegen_statement_list_payload(s0, stmt_node.statements), done |-> FALSE]
    ELSE [st |-> codegen_expr(s0, stmt_node).st, done |-> FALSE]

(* A faulty SkipIfTerminated: the loop stops only when the builder has no   *)
(* insertion block, and never looks for a terminator                       *)
SkipIfTerminated_NoBlockOnly(st) == GetInsertBlock(st) = 0

(* The test at the head of the loop body: the insertion block already has  *)
(* a terminator.                                                           *)
SkipIfTerminated(st) ==
    GetInsertBlock(st) # 0 /\ HasTerminator(st, GetInsertBlock(st))

(* The loop of codegen_statement_list_payload from statement i on; list is *)
(* the number of this call in the log.                                     *)
RECURSIVE codegen_statements_from(_, _, _, _)
statements_next(r, statements, i, list) ==
    IF r.done THEN r.st ELSE codegen_statements_from(r.st, statements, i + 1, list)

codegen_statements_from(st, statements, i, list) ==
    IF i > Len(statements) THEN st
    ELSE IF statements[i] = NullNode
    THEN codegen_statements_from(st, statements, i + 1, list)
    ELSE IF SkipIfTerminated(st)
    THEN st
    ELSE statements_next(
             codegen_statement(
                 Log(st, StmtEvent(st, statements[i], i, list, Len(statements))),
                 statements[i]),
             statements, i, list)

(* What the module looks like when the call for list returns *)
ListEndEvent(st, list, len) ==
    [ev |-> "list_end", list |-> list, len |-> len,
     block |-> GetInsertBlock(st),
     terminated |-> GetInsertBlock(st) # 0 /\ HasTerminator(st, GetInsertBlock(st)),
     next_id |-> st.next_id, blocks |-> Len(st.blocks), diags |-> Len(st.diag)]

statement_list_return(s, list, len) == Log(s, ListEndEvent(s, list, len))

codegen_statement_list_payload(st, payload) ==
    statement_list_return(codegen_statements_from(st, payload, 1, Len(st.log) + 1),
                          Len(st.log) + 1, Len(payload))

(* llvm_generate_code from the return of the root list (s5) *)
generate_code_end(s5, st, preserved_outer_func, preserved_outer_scope) ==
    LogScope("root", st,
             [func_def_default_return(s5)
                 EXCEPT !.current_function = preserved_outer_func,
                        !.tables = free_symbol_table(@, s5.current_scope_symbols),
                        !.current_scope_symbols = preserved_outer_scope])

(* the dummy function emitted for a root that is not a statement list *)
generate_code_bad_root(st) ==
    LET e1 == Diag(st, "AST root must be a NODE_STATEMENT_LIST")
        e2 == AppendBasicBlock(AddFunction(e1, "main_ast_error", 0),
                               Len(st.funcs) + 1, "entry_ast_error")
        e3 == PositionBuilderAtEnd(e2, NextBlock(st, 1))
    IN Build(e3, "ret", VoidTy, <<ConstInt(I32, 1)>>, <<>>, "")

llvm_generate_code(st, root_ast_node) ==
    IF root_ast_node = NullNode \/ root_ast_node.type # "StatementList"
    THEN generate_code_bad_root(st)
    ELSE LET main_func == Len(st.funcs) + 1
             s1 == AddFunction(st, "main", 0)
             s2 == AppendBasicBlock(s1, main_func, "main_script_entry")
             s3 == PositionBuilderAtEnd(s2, NextBlock(st, 1))
             s4 == [s3 EXCEPT !.current_function = main_func,
                              !.tables = create_symbol_table(@, st.global_symbols),
                              !.current_scope_symbols = Len(st.tables) + 1]
         IN generate_code_end(codegen_statement_list_payload(s4, root_ast_node.statements),
                              st, st.current_function, st.current_scope_symbols)

-----------------------------------------------------------------------------
(* AST construction: the node constructors of ast.c *)

create_number_node(value) == [type |-> "Number", value |-> value]

create_identifier_node(name) == [type |-> "Identifier", name |-> name]

create_binary_op_node(op, left, right) ==
    [type |-> "BinaryOp", op |-> op, left |-> left, right |-> right]

create_unary_op_node(op, operand) == [type |-> "UnaryOp", op |-> op, operand |-> operand]

create_assignment_node(var_name, expression) ==
    [type |-> "Assignment", var_name |-> var_name, expression |-> expression]

create_function_def_node(func_name, param_names, body_stmts_node) ==
    [type |-> "FunctionDef", func_name |-> func_name, param_names |-> param_names,
     body_stmts_node |-> body_stmts_node]

create_function_call_node(func_name, args) ==
    [type |-> "FunctionCall", func_name |-> func_name, args |-> args]

create_pipeline_node(left_expr, right_op) ==
    [type |-> "Pipeline", left_expr |-> left_expr, right_op |-> right_op]

create_if_else_node(condition_expr, then_stmts_node, else_stmts_node) ==
    [type |-> "IfElse", condition_expr |-> condition_expr,
     then_stmts_node |-> then_stmts_node, else_stmts_node |-> else_stmts_node]

create_for_loop_node(range_expr, loop_var_name, body_stmts_node) ==
    [type |-> "ForLoop", range_expr |-> range_expr, loop_var_name |-> loop_var_name,
     body_stmts_node |-> body_stmts_node]

create_range_node(start, end) == [type |-> "Range", start |-> start, end |-> end]

create_return_node(value) == [type |-> "Return", value |-> value]

(* create_statement_list_node followed by add_statement_to_list for each *)
create_statement_list_node(statements) ==
    [type |-> "StatementList", statements |-> statements]

create_print_call_node(expression) == [type |-> "PrintCall", expression |-> expression]

-----------------------------------------------------------------------------
(* The programs the grammar (flowscript.y) derives, up to the bounds *)

Num(n) == create_number_node(n)

Id(name) == create_identifier_node(name)

Call(name, args) == create_function_call_node(name, args)

List(statements) == create_statement_list_node(statements)

(* piped_operation: T_FOR T_EACH block *)
ForEach(body) == create_for_loop_node(NullNode, "item", List(body))

(* for_statement: T_FOR range_call T_EACH block *)
For(range, body) == create_for_loop_node(range, "item", List(body))

(* arg_list_opt: up to MaxArgs literal arguments *)
ArgLists == {[i \in 1..n |-> Num(1)] : n \in 0..MaxArgs}

Operands == {Num(1), Id("x"), Call("f", <<Num(1)>>), Call("crash", <<>>)}

ShortCircuits ==
    {create_binary_op_node(op, a, b) :
        op \in {"OP_AND", "OP_OR"}, a \in Operands, b \in Operands}
    \cup {create_binary_op_node(op, Call("f", <<Num(1)>>),
                                create_binary_op_node(op2, Id("x"), b)) :
            op \in {"OP_AND", "OP_OR"}, op2 \in {"OP_AND", "OP_OR"},
            b \in {Call("f", <<Num(1)>>), Call("crash", <<>>)}}
    \cup {create_binary_op_node(op, create_binary_op_node(op2, Id("x"), b),
                                Call("f", <<Num(1)>>)) :
            op \in {"OP_AND", "OP_OR"}, op2 \in {"OP_AND", "OP_OR"},
            b \in {Call("f", <<Num(1)>>), Call("crash", <<>>)}}
    \cup {create_binary_op_node("OP_OR",
              create_binary_op_node("OP_AND", Id("x"), Call("f", <<Num(1)>>)),
              create_binary_op_node("OP_AND", Id("x"), Call("f", <<Num(1)>>)))}

(* expression: term, additive, comparison, logical, unary, call, print *)
Expressions ==
    Operands
    \cup ShortCircuits
    \cup {create_binary_op_node(op, a, b) :
            op \in {"OP_PLUS", "OP_LT"}, a \in {Id("x"), Call("crash", <<>>)},
            b \in {Num(1), Call("crash", <<>>)}}
    \cup {create_unary_op_node(op, a) :
            op \in {"OP_NOT", "OP_MINUS"}, a \in {Id("x"), Call("crash", <<>>)}}
    \cup {Call("f", args) : args \in ArgLists}
    \cup {Call("f", <<Call("crash", <<>>)>>), Call("f", <<Call("f", <<Num(1)>>)>>)}
    \cup {Call("x", <<>>), Call("item", <<>>)}
    \cup {create_print_call_node(a) : a \in Operands}
    \cup {create_range_node(Num(0), a) : a \in {Num(2), Call("crash", <<>>)}}

(* piped_operation: call, conditional, for each, print() *)
PipedOperations ==
    {Call("f", args) : args \in ArgLists}
    \cup {Call("crash", <<>>),
          create_print_call_node(NullNode),
          ForEach(<<create_pipeline_node(Id("item"), create_print_call_node(NullNode))>>),
          create_if_else_node(Id("x"), List(<<Call("f", <<Num(1)>>)>>), NullNode),
          create_if_else_node(Call("crash", <<>>), List(<<>>), NullNode)}

PipelineSources ==
    {Num(1), Id("x"), Call("crash", <<>>), create_range_node(Num(0), Num(2)),
     create_range_node(Call("f", <<Num(1)>>), Id("x"))}

(* pipeline_expression: one stage, or chained (left-associative) *)
Pipelines ==
    {create_pipeline_node(l, r) : l \in PipelineSources, r \in PipedOperations}
    \cup {create_pipeline_node(create_pipeline_node(l, r1), r2) :
            l \in {Num(1), Call("crash", <<>>)},
            r1 \in {Call("f", <<>>), create_print_call_node(NullNode),
                    create_if_else_node(Num(1), List(<<>>), NullNode)},
            r2 \in {Call("f", <<>>), Call("f", <<Num(1)>>),
                    create_print_call_node(NullNode)}}

Returns ==
    {create_return_node(v) :
        v \in {NullNode, Id("x"), Call("crash", <<>>),
               create_binary_op_node("OP_AND", Num(0), Call("crash", <<>>))}}

Assignments ==
    {create_assignment_node("x", e) :
        e \in {Num(1), Id("x"), Call("crash", <<>>),
               create_binary_op_node("OP_OR", Num(1), Call("f", <<Num(1)>>))}}
    \cup {create_assignment_node("f", Num(1)), create_assignment_node("y", Id("x"))}

(* a definition that reads a name of the definition site, one that calls   *)
(* itself, one whose body assigns and returns a local, and one whose       *)
(* parameter has the name of the function it calls                         *)
Definitions ==
    {create_function_def_node("h", <<>>, List(<<create_return_node(Id("x"))>>)),
     create_function_def_node("h", <<"f">>,
         List(<<create_return_node(Call("f", <<Id("f")>>))>>)),
     create_function_def_node("h", <<"a">>,
         List(<<create_return_node(Call("h", <<Id("a")>>))>>)),
     create_function_def_node("h", <<"a">>,
         List(<<create_assignment_node("x", Id("a")), create_return_node(Id("x"))>>))}

(* a local variable declared before the function of its name is defined,   *)
(* and a loop variable with the name of a function, each in scope at a     *)
(* call of that name                                                       *)
Shadowings ==
    {List(<<create_assignment_node("f", Num(1)),
            create_function_def_node("f", <<"a">>,
                                     List(<<create_return_node(Id("a"))>>)),
            Call("f", <<Id("f")>>)>>),
     List(<<create_function_def_node("item", <<"a">>,
                                     List(<<create_return_node(Id("a"))>>)),
            For(create_range_node(Num(0), Num(2)),
                <<Call("item", <<Id("item")>>)>>)>>)}

(* an assignment to a name and a call of that name right after it *)
AssignedCalls ==
    {List(<<create_assignment_node("f", Num(1)), Call("f", <<Num(2)>>)>>)}


(* a call of h, a definition of h that calls itself, at the top of the     *)
(* list, in a conditional, in a loop body or in another function, and a    *)
(* call of h after it                                                      *)
RecursiveH ==
    create_function_def_node("h", <<"a">>,
        List(<<create_return_node(Call("h", <<Id("a")>>))>>))

LateCalls ==
    {List(<<Call("h", <<Num(1)>>), d, Call("h", <<Num(1)>>)>>) :
        d \in {RecursiveH,
               create_if_else_node(Num(1), List(<<RecursiveH>>), NullNode),
               For(create_range_node(Num(0), Num(2)), <<RecursiveH>>),
               create_function_def_node("g", <<"x">>, List(<<RecursiveH>>))}}

(* a function defined in a loop body, or in a conditional under a          *)
(* pipeline, whose body pipes a parameter, a Range or a failing call into  *)
(* print()                                                                 *)
PipedPrintFunction(l) ==
    create_function_def_node("g", <<"a">>,
        List(<<create_pipeline_node(l, create_print_call_node(NullNode))>>))

NestedPrints ==
    {For(create_range_node(Num(0), Num(2)), <<PipedPrintFunction(l)>>) :
        l \in {Id("a"), create_range_node(Num(0), Num(2)), Call("crash", <<>>)}}
    \cup {create_pipeline_node(Id("x"),
              create_if_else_node(Num(1), List(<<PipedPrintFunction(l)>>), NullNode)) :
            l \in {Id("a"), create_range_node(Num(0), Num(2))}}

(* a three-parameter function and a chained pipeline whose last operator   *)
(* calls it with two explicit arguments; a piped call of it with a call as *)
(* its first explicit argument                                             *)
ChainedCalls ==
    {List(<<create_function_def_node("k", <<"p", "a", "b">>,
                                     List(<<create_return_node(Id("a"))>>)),
            create_pipeline_node(l, Call("k", <<a, Num(2)>>))>>) :
        l \in {create_pipeline_node(Id("x"), Call("f", <<>>)), Id("x")},
        a \in {Id("x"), Call("f", <<Num(1)>>)}}

(* statements that contain no statement list of the model's choosing *)
Simple ==
    Expressions \cup Pipelines \cup Returns \cup Assignments \cup Definitions
    \cup Shadowings \cup ChainedCalls \cup AssignedCalls \cup LateCalls

(* The constructs that hold a statement list, around a statement s of      *)
(* smaller nesting depth.                                                   *)
Nested(s) ==
    {create_if_else_node(c, List(<<s>>), NullNode) :
        c \in {Id("x"), Call("crash", <<>>),
               create_binary_op_node("OP_AND", Id("x"), Call("f", <<Num(1)>>))}}
    \cup {create_if_else_node(Num(1), List(<<s>>), List(e)) :
            e \in {<<>>, <<s>>, <<create_return_node(Num(1))>>}}
    \cup {For(create_range_node(Num(0), a), <<s>>) : a \in {Num(2), Call("crash", <<>>)}}
    \cup {create_function_def_node("g", <<"x">>, List(<<s>>)),
          List(<<s, create_assignment_node("x", Num(2))>>),
          create_pipeline_node(Num(1), create_if_else_node(Num(1), List(<<s>>), NullNode)),
          create_pipeline_node(create_range_node(Num(0), Num(2)), ForEach(<<s>>))}

RECURSIVE Statements(_)
Statements(depth) ==
    IF depth = 0 THEN Simple
    ELSE Statements(depth - 1)
         \cup UNION {Nested(s) : s \in Statements(depth - 1)}

(* What precedes the statement in the root list: nothing, the definition   *)
(* of f, or the definition of f and a first assignment to x.               *)
Preludes ==
    {<<>>,
     <<create_function_def_node("f", <<"a">>, List(<<create_return_node(Id("a"))>>))>>,
     <<create_function_def_node("f", <<"a">>, List(<<create_return_node(Id("a"))>>)),
       create_assignment_node("x", Num(1))>>}

(* What follows it: nothing, or a print and a last function definition *)
Tails ==
    {<<>>,
     <<create_pipeline_node(Id("x"), create_print_call_node(NullNode)),
       create_function_def_node("t", <<>>, List(<<create_return_node(Num(1))>>))>>}

Programs ==
    {List(p \o <<s>> \o t) : p \in Preludes, s \in Statements(MaxNest), t \in Tails}
    \cup {List(p \o <<s>>) : p \in Preludes, s \in NestedPrints}
    \cup {List(<<>>), NullNode}

-----------------------------------------------------------------------------
(* The compiler run: parse (ast_root is chosen), generate, free            *)

(* run is the execution of the emitted module; the compiler does not run it *)
NotRunning == [block |-> 0]

Init ==
    /\ ast_root \in Programs
    /\ state = create_llvm_generator_state
    /\ pc = "parsed"
    /\ symtab = <<>>
    /\ last_op = [op |-> "none"]
    /\ run = NotRunning

Generate ==
    /\ pc = "parsed"
    /\ state' = llvm_generate_code(state, ast_root)
    /\ pc' = "generated"
    /\ UNCHANGED <<ast_root, symtab, last_op, run>>

Next == Generate

Spec == Init /\ [][Next]_vars

Generated == pc = "generated"

-----------------------------------------------------------------------------
(* The symbol table on its own: scopes are created, names defined and      *)
(* looked up in any order.                                                 *)

ScopeNames == {"a", "b"}

(* handle, type and is-parameter flag of a definition *)
ScopeBindings ==
    {[value |-> AllocaVal(1, I32), type |-> I32, is_param |-> 1],
     [value |-> FuncVal(2), type |-> FnTy(1), is_param |-> 0]}

(* The names of a scope that has been filled: "a" and v2, v3, ... *)
FillName(i) == IF i = 1 THEN "a" ELSE "v" \o ToString(i)

(* Scope st after n calls of add_symbol, each with a name of its own: the   *)
(* appends of add_symbol, one entry per call in call order                 *)
FillScope(tables, st, n) ==
    [tables EXCEPT ![st].entries =
        [i \in 1..n |-> Symbol(FillName(i), AllocaVal(i, I32), I32, 0)]]

(* The global scope alone and empty, the global scope filled to capacity,  *)
(* or an empty global scope with a child scope filled to capacity.         *)
InitSym ==
    /\ symtab \in {create_symbol_table(<<>>, 0),
                   FillScope(create_symbol_table(<<>>, 0), 1, SYMBOL_TABLE_SIZE),
                   FillScope(create_symbol_table(create_symbol_table(<<>>, 0), 1),
                             2, SYMBOL_TABLE_SIZE)}
    /\ last_op = [op |-> "create", st |-> 1, name |-> ""]
    /\ pc = "symtab"
    /\ ast_root = NullNode
    /\ state = create_llvm_generator_state
    /\ run = NotRunning

CreateScope ==
    /\ pc = "symtab"
    /\ Len(symtab) < MaxScopes
    /\ \E parent \in 0..Len(symtab) :
          /\ symtab' = create_symbol_table(symtab, parent)
          /\ last_op' = [op |-> "create", st |-> Len(symtab) + 1, name |-> ""]
    /\ UNCHANGED <<state, ast_root, pc, run>>

AddSymbol ==
    /\ pc = "symtab"
    /\ \E st \in 1..Len(symtab), name \in ScopeNames, b \in ScopeBindings :
          /\ symtab' = add_symbol(symtab, st, name, b.value, b.type, b.is_param)
          /\ last_op' = [op |-> "add", st |-> st, name |-> name, binding |-> b,
                         overflow |-> add_symbol_overflow(symtab, st)]
    /\ UNCHANGED <<state, ast_root, pc, run>>

FindSymbol ==
    /\ pc = "symtab"
    /\ \E st \in 1..Len(symtab), name \in ScopeNames :
          /\ find_symbol(symtab, st, name).scope \in 0..Len(symtab)
          /\ last_op' = [op |-> "find", st |-> st, name |-> name]
    /\ UNCHANGED <<state, ast_root, pc, symtab, run>>

NextSym == CreateScope \/ AddSymbol \/ FindSymbol

SpecSym == InitSym /\ [][NextSym]_vars

-----------------------------------------------------------------------------
(* The emitted module executed: main of a program that is one for loop,    *)
(* one instruction at a time, on 32-bit two's complement integers.         *)

INT_MAX == 2147483647

INT_MIN == -2147483647 - 1

(* The largest number of iterations of a loop that is executed *)
MaxTrips == 3

(* 32-bit two's complement addition: the sum modulo 2^32, read as signed,  *)
(* computed without leaving the 32-bit range                               *)
Add32(a, b) ==
    IF b > 0 /\ a > INT_MAX - b THEN INT_MIN + ((a - (INT_MAX - b)) - 1)
    ELSE IF b < 0 /\ a < INT_MIN - b THEN INT_MAX - (((INT_MIN - b) - 1) - a)
    ELSE a + b

Sub32(a, b) ==
    IF b = INT_MIN THEN Add32(Add32(a, INT_MAX), 1) ELSE Add32(a, 0 - b)

(* The bound v as the source writes it: a literal, or 0 - literal below 0 *)
BoundExpr(v) ==
    IF v >= 0 THEN Num(v)
    ELSE IF v = INT_MIN
    THEN create_binary_op_node("OP_MINUS",
             create_binary_op_node("OP_MINUS", Num(0), Num(INT_MAX)), Num(1))
    ELSE create_binary_op_node("OP_MINUS", Num(0), Num(0 - v))

LoopBounds ==
    {INT_MIN, INT_MIN + 1, INT_MIN + 2, -2, -1, 0, 1, 2, 3,
     INT_MAX - 3, INT_MAX - 1, INT_MAX}

(* loop bodies that print the item: named, piped, and from the slot of the *)
(* piped value, the second one also overwriting the variable of the bound  *)
LoopBodies ==
    {<<create_print_call_node(Id("item"))>>,
     <<create_pipeline_node(Id("item"), create_print_call_node(NullNode)),
       create_assignment_node("x", Num(0))>>,
     <<create_pipeline_node(Id("item"), create_print_call_node(NullNode))>>}

(* x = end; for range(start, end or x) each { body } *)
LoopProgram(start, end, by_name, body) ==
    List(<<create_assignment_node("x", BoundExpr(end)),
           For(create_range_node(BoundExpr(start),
                                 IF by_name THEN Id("x") ELSE BoundExpr(end)),
               body)>>)

(* <<start, end>> with no more than MaxTrips values from start up to end *)
LoopRanges ==
    {r \in LoopBounds \X LoopBounds :
        r[2] <= r[1] \/ r[1] > INT_MAX - MaxTrips \/ r[2] <= r[1] + MaxTrips}

LoopPrograms ==
    {LoopProgram(r[1], r[2], by_name, body) :
        r \in LoopRanges, by_name \in BOOLEAN, body \in LoopBodies}

(* the module llvm_generate_code emitted for a loop program, not yet run *)
InitRun ==
    /\ ast_root \in LoopPrograms
    /\ state = llvm_generate_code(create_llvm_generator_state, ast_root)
    /\ pc = "generated"
    /\ symtab = <<>>
    /\ last_op = [op |-> "none"]
    /\ run = NotRunning

(* the process starts in the entry block of main, registers and stack      *)
(* slots indexed by the id of their instruction                            *)
StartRun ==
    /\ pc = "generated"
    /\ pc' = "running"
    /\ run' = [block |-> GetEntryBasicBlock(state, 1), ip |-> 1,
               regs |-> [i \in 1..state.next_id |-> 0],
               mem |-> [i \in 1..state.next_id |-> 0],
               init |-> {}, out |-> <<>>,
               visits |-> <<GetEntryBasicBlock(state, 1)>>]
    /\ UNCHANGED <<state, ast_root, symtab, last_op>>

CurInst == state.blocks[run.block].insts[run.ip]

(* the run-time value of operand v *)
ValueOf(v) == IF v.kind = "inst" THEN run.regs[v.id] ELSE v.v

(* what a load of a slot that was never stored to may give *)
UndefValues == {0, 1}

Arith(op, a, b) == IF op = "OP_PLUS" THEN Add32(a, b) ELSE Sub32(a, b)

Compare(op, a, b) ==
    IF op = "OP_LT" THEN a < b
    ELSE IF op = "OP_GT" THEN a > b
    ELSE IF op = "OP_LTE" THEN a <= b
    ELSE IF op = "OP_GTE" THEN a >= b
    ELSE IF op = "OP_EQ" THEN a = b
    ELSE a # b

(* the values instruction inst can produce *)
Results(inst) ==
    IF inst.op = "load"
    THEN IF inst.args[1].id \in run.init THEN {run.mem[inst.args[1].id]}
         ELSE UndefValues
    ELSE IF inst.op \in {"OP_PLUS", "OP_MINUS"}
    THEN {Arith(inst.op, ValueOf(inst.args[1]), ValueOf(inst.args[2]))}
    ELSE IF inst.op \in CompareOps \cup {"icmp_ne"}
    THEN {IF Compare(inst.op, ValueOf(inst.args[1]), ValueOf(inst.args[2]))
          THEN 1 ELSE 0}
    ELSE {0}

(* the process after inst produced v: a store writes its slot, a call of   *)
(* printf writes its second operand to the output                          *)
Executed(inst, v) ==
    [run EXCEPT !.ip = @ + 1,
                !.regs[inst.id] = v,
                !.mem = IF inst.op = "store"
                        THEN [@ EXCEPT ![inst.args[2].id] = ValueOf(inst.args[1])]
                        ELSE @,
                !.init = IF inst.op = "store" THEN @ \cup {inst.args[2].id} ELSE @,
                !.out = IF inst.op = "call" /\ inst.name = "printf"
                           /\ Len(inst.args) = 2
                        THEN Append(@, ValueOf(inst.args[2]))
                        ELSE @]

ExecInstruction ==
    /\ pc = "running"
    /\ run.ip <= Len(state.blocks[run.block].insts)
    /\ CurInst.op \in {"alloca", "store", "load", "call", "icmp_ne", "OP_PLUS",
                       "OP_MINUS"} \cup CompareOps
    /\ CurInst.op = "call" => CurInst.name = "printf"
    /\ \E v \in Results(CurInst) : run' = Executed(CurInst, v)
    /\ UNCHANGED <<state, ast_root, pc, symtab, last_op>>

(* br, and condbr on a 1-bit value: blocks is <<true, false>> *)
ExecBranch ==
    /\ pc = "running"
    /\ run.ip <= Len(state.blocks[run.block].insts)
    /\ CurInst.op \in {"br", "condbr"}
    /\ run' = [run EXCEPT
                 !.block = IF CurInst.op = "br" \/ ValueOf(CurInst.args[1]) # 0
                           THEN CurInst.blocks[1] ELSE CurInst.blocks[2],
                 !.ip = 1,
                 !.visits = Append(@, IF CurInst.op = "br"
                                         \/ ValueOf(CurInst.args[1]) # 0
                                      THEN CurInst.blocks[1]
                                      ELSE CurInst.blocks[2])]
    /\ UNCHANGED <<state, ast_root, pc, symtab, last_op>>

ExecReturn ==
    /\ pc = "running"
    /\ run.ip <= Len(state.blocks[run.block].insts)
    /\ CurInst.op \in {"ret", "retvoid"}
    /\ pc' = "halted"
    /\ UNCHANGED <<state, ast_root, symtab, last_op, run>>

NextRun == StartRun \/ ExecInstruction \/ ExecBranch \/ ExecReturn

(* a process that can take a step takes it *)
SpecRun == InitRun /\ [][NextRun]_vars /\ WF_vars(NextRun)

-----------------------------------------------------------------------------
(* Reading the emitted module *)

LogEvents(kind) == {i \in 1..Len(state.log) : state.log[i].ev = kind}

EmittedBlocks == {b \in 1..Len(state.blocks) : state.blocks[b].parent # 0}

(* The block and the position of instruction id *)
BlockOf(id) ==
    CHOOSE b \in 1..Len(state.blocks) :
        \E i \in 1..Len(state.blocks[b].insts) : state.blocks[b].insts[i].id = id

PositionOf(id) ==
    CHOOSE i \in 1..Len(state.blocks[BlockOf(id)].insts) :
        state.blocks[BlockOf(id)].insts[i].id = id

(* CFG edges: the targets of the terminator that ends block b *)
Successors(b) ==
    IF HasTerminator(state, b)
    THEN LET t == state.blocks[b].insts[Len(state.blocks[b].insts)]
         IN {t.blocks[k] : k \in 1..Len(t.blocks)}
    ELSE {}

(* The blocks reachable from the set from along CFG edges other than cut *)
RECURSIVE ReachableAvoiding(_, _)
ReachableAvoiding(from, cut) ==
    LET next == from \cup {c \in 1..Len(state.blocks) :
                             \E b \in from : c \in Successors(b) /\ <<b, c>> # cut}
    IN IF next = from THEN from ELSE ReachableAvoiding(next, cut)

-----------------------------------------------------------------------------
(* C1: after llvm_generate_code, every basic block of an emitted function  *)
(* holds exactly one terminator, and it is the block's last instruction.   *)
C1_TerminatorUniqueness ==
    Generated =>
        \A b \in EmittedBlocks :
            LET insts == state.blocks[b].insts
            IN /\ Len(insts) > 0
               /\ insts[Len(insts)].op \in Terminators
               /\ \A i \in 1..(Len(insts) - 1) : insts[i].op \notin Terminators

(* a conditional whose two branches both end in a return, so that neither  *)
(* branch to the merge block is emitted, inside a module of two functions  *)
C1_Witness ==
    /\ Generated
    /\ Len(state.funcs) >= 2
    /\ \E e \in LogEvents("if_else") :
          LET ev == state.log[e]
              then_insts == state.blocks[ev.then_end].insts
          IN /\ ev.else_bb # 0
             /\ then_insts[Len(then_insts)].op = "ret"
             /\ state.blocks[ev.else_end].insts[Len(state.blocks[ev.else_end].insts)].op
                    = "ret"
             /\ state.blocks[ev.merge_bb].parent # 0

(* C2: every stack slot (parameter, implicit variable, loop variable) is   *)
(* allocated in the entry block of the function current at its creation,   *)
(* before every load and store of the slot in that function.               *)
C2_AllocationDominance ==
    Generated =>
        \A e \in LogEvents("slot") :
            LET ev == state.log[e]
                entry == GetEntryBasicBlock(state, ev.fn)
            IN /\ BlockOf(ev.slot.id) = entry
               /\ state.blocks[entry].insts[PositionOf(ev.slot.id)].op = "alloca"
               /\ \A b \in 1..Len(state.blocks) : \A i \in 1..Len(state.blocks[b].insts) :
                     LET inst == state.blocks[b].insts[i]
                     IN (/\ state.blocks[b].parent = ev.fn
                         /\ inst.op \in {"load", "store"}
                         /\ \E k \in 1..Len(inst.args) : inst.args[k] = ev.slot
                         /\ b = entry)
                        => PositionOf(ev.slot.id) < i

(* a variable first assigned while the builder stands outside the entry    *)
(* block, and loaded afterwards                                            *)
C2_Witness ==
    /\ Generated
    /\ \E e \in LogEvents("slot") :
          /\ state.log[e].kind = "variable"
          /\ state.log[e].at # GetEntryBasicBlock(state, state.log[e].fn)
          /\ \E b \in EmittedBlocks : \E i \in 1..Len(state.blocks[b].insts) :
                /\ state.blocks[b].insts[i].op = "load"
                /\ state.blocks[b].insts[i].args[1] = state.log[e].slot

(* C3: after lowering a function definition, a for loop or the root list,  *)
(* the current scope is the scope that was current before, on every path.  *)
C3_ScopeHygiene ==
    \A e \in LogEvents("scope") : state.log[e].after = state.log[e].before

(* a loop that pushed a scope and had a failing statement inside *)
C3_Witness ==
    /\ Generated
    /\ \E e \in LogEvents("scope") :
          /\ state.log[e].construct = "for_loop"
          /\ state.log[e].pushed
          /\ state.log[e].failed
    /\ \E e \in LogEvents("scope") :
          state.log[e].construct = "func_def" /\ state.log[e].failed

(* C4: after codegen_pipeline the piped-value slot holds what it held on   *)
(* entry, for every right operator and whether or not a side failed.       *)
C4_PipedValueDiscipline ==
    \A e \in LogEvents("pipeline") : state.log[e].piped_after = state.log[e].piped_before

(* a pipeline inside a loop body (the slot holds the loop item on entry)   *)
(* whose left side produced another value and whose right side failed      *)
C4_Witness ==
    /\ Generated
    /\ \E e \in LogEvents("pipeline") :
          /\ state.log[e].piped_before # NullVal
          /\ state.log[e].piped_inside # state.log[e].piped_before
          /\ state.log[e].piped_inside # NullVal
          /\ state.log[e].result_null
          /\ state.log[e].diags > 0

(* C5: every instruction emitted while lowering b of `a and b` lies in a   *)
(* block reached from the operator's starting block only through the true  *)
(* edge of the branch on a (the false edge for `a or b`), and in neither   *)
(* the block that evaluates a nor the merge block.                         *)
C5_ShortCircuit ==
    Generated =>
        \A e \in LogEvents("shortcircuit") :
            LET ev == state.log[e]
                br == state.blocks[ev.evalL].insts[Len(state.blocks[ev.evalL].insts)]
                edge == IF ev.op = "OP_AND" THEN 1 ELSE 2
            IN /\ br.op = "condbr"
               /\ br.blocks[edge] = ev.evalR
               /\ br.blocks[3 - edge] = ev.merge
               /\ \A id \in ev.first..ev.last :
                     /\ BlockOf(id) \notin {ev.evalL, ev.merge}
                     /\ BlockOf(id) \in ReachableAvoiding({ev.evalR}, <<0, 0>>)
                     /\ BlockOf(id) \notin
                            ReachableAvoiding({ev.evalL}, <<ev.evalL, ev.evalR>>)

(* a right operand that emitted a call and created blocks of its own *)
C5_Witness ==
    /\ Generated
    /\ \E e \in LogEvents("shortcircuit") :
          /\ state.log[e].revaluated # state.log[e].evalR
          /\ \E id \in state.log[e].first..state.log[e].last :
                state.blocks[BlockOf(id)].insts[PositionOf(id)].op = "call"

(* C6: a call is emitted only when explicit arguments plus the piped       *)
(* leading value match the callee's parameter count; on a mismatch there   *)
(* is one diagnostic, no value, no call and no argument instruction.       *)
C6_ArityCheck ==
    \A e \in LogEvents("call") :
        LET ev == state.log[e]
            actual == ev.explicit + (IF ev.piped THEN 1 ELSE 0)
        IN /\ ev.outcome = "emitted" =>
                 /\ actual = ev.expected
                 /\ state.blocks[BlockOf(ev.call)].insts[PositionOf(ev.call)].op = "call"
                 /\ Len(state.blocks[BlockOf(ev.call)].insts[PositionOf(ev.call)].args)
                        = ev.expected
           /\ (ev.outcome # "undefined" /\ actual # ev.expected) =>
                 /\ ev.outcome = "arity"
                 /\ ev.result_null
                 /\ ev.diags = 1
                 /\ ev.last < ev.first
           /\ ev.outcome = "arity" => actual # ev.expected

(* a call with as many explicit arguments as the callee has parameters,    *)
(* rejected because the piped leading value counts as one more             *)
C6_Witness ==
    /\ Generated
    /\ \E e \in LogEvents("call") :
          /\ state.log[e].outcome = "arity"
          /\ state.log[e].piped
          /\ state.log[e].explicit = state.log[e].expected
          /\ state.log[e].explicit > 0

(* C7: `range(a,b) |> for each { body }` is lowered by the for-loop        *)
(* lowerer with the spliced range: a loop (cond, body, inc, end) is        *)
(* emitted whose body runs for a, a+1, ..., b-1.                           *)
C7_ForEachLowersLoop ==
    \A e \in LogEvents("pipeline") :
        LET ev == state.log[e]
        IN (ev.left = "Range" /\ ev.rhs = "ForLoop" /\ ev.left_diags = 0) =>
              /\ ev.diags = 0
              /\ ev.blocks_after >= ev.blocks_before + 4
              /\ \E f \in LogEvents("for_loop") : f < e

(* the for-each pipeline over a range whose bounds lowered: a diagnostic,   *)
(* no value, and not one block added                                       *)
C7_Witness ==
    /\ Generated
    /\ \E e \in LogEvents("pipeline") :
          /\ state.log[e].left = "Range"
          /\ state.log[e].rhs = "ForLoop"
          /\ state.log[e].left_diags = 0
          /\ state.log[e].result_null
          /\ state.log[e].blocks_after = state.log[e].blocks_before
          /\ LogEvents("for_loop") = {}

(* C8: a lookup of a name from a scope gives the same binding before and   *)
(* after any step that is not a define of that name on a scope of the      *)
(* lookup's parent chain.                                                  *)
C8_IdempotentLookup ==
    [][\A s \in 1..Len(symtab) : \A n \in ScopeNames :
          (last_op'.op = "add" /\ last_op'.name = n
                /\ last_op'.st \in ScopeChain(symtab, s))
          \/ find_symbol(symtab', s, n) = find_symbol(symtab, s, n)]_vars

(* a define of another name landed on the chain of a scope that has a      *)
(* binding for "a" in an enclosing scope                                   *)
C8_Witness ==
    /\ pc = "symtab"
    /\ last_op.op = "add"
    /\ last_op.name = "b"
    /\ \E s \in 1..Len(symtab) :
          /\ last_op.st \in ScopeChain(symtab, s)
          /\ find_symbol(symtab, s, "a").scope \notin {0, s}
          /\ EntryIndex(symtab[last_op.st].entries, "a") # 0

(* C9: the parent of a function's scope is the global scope, so no         *)
(* identifier of the body resolves to a binding of the scope current at    *)
(* the definition site.                                                    *)
C9_FunctionScopeParent ==
    Generated =>
        \A d \in LogEvents("func_def") :
            /\ state.log[d].parent = state.global_symbols
            /\ \A i \in LogEvents("ident") :
                  state.log[d].fnscope \in ScopeChain(state.tables, state.log[i].from)
                  => state.log[i].found \notin
                        (ScopeChain(state.tables, state.log[d].scope_before)
                            \ {state.global_symbols})

(* a body, nested in a loop of another function, reads a name that the    *)
(* definition site binds                                                   *)
C9_Witness ==
    /\ Generated
    /\ \E d \in LogEvents("func_def") : \E i \in LogEvents("ident") :
          /\ state.log[d].fnscope \in ScopeChain(state.tables, state.log[i].from)
          /\ state.log[d].scope_before # state.log[d].func_before + 1
          /\ find_symbol(state.tables, state.log[d].scope_before,
                         state.log[i].name).scope
                \notin {0, state.global_symbols}
          /\ state.log[i].found = 0

(* C10: when an operand an expression node needs returns no value, the     *)
(* node returns no value too (binary operators including the right side    *)
(* of and/or, unary operators, assignment, call arguments, print, return). *)
C10_FailurePropagates ==
    /\ \A e \in LogEvents("expr") : state.log[e].operand_null => state.log[e].result_null
    /\ \A e \in LogEvents("call") :
          state.log[e].outcome = "argfail" => state.log[e].result_null

(* a return statement that emitted `ret` of the phi of an and/or whose      *)
(* right operand had failed with a diagnostic                              *)
C10_Witness ==
    /\ Generated
    /\ \E e \in LogEvents("shortcircuit") :
          /\ state.log[e + 1].ev = "expr"
          /\ state.log[e + 1].operand_null
          /\ ~state.log[e + 1].result_null
          /\ \E b \in EmittedBlocks : \E i \in 1..Len(state.blocks[b].insts) :
                /\ state.blocks[b].insts[i].op = "ret"
                /\ state.blocks[b].insts[i].args = <<InstVal(state.log[e].phi, I1)>>

-----------------------------------------------------------------------------
(* Reading the log of the statement loop *)

(* The "list_end" event of the call of codegen_statement_list_payload that *)
(* logged the "stmt" event e                                               *)
ListEndOf(e) ==
    CHOOSE m \in LogEvents("list_end") : state.log[m].list = state.log[e].list

(* The "stmt" event of the statement after the one of e in the same list,  *)
(* 0 when the loop did not get to it                                       *)
NextStmt(e) ==
    LET later == {n \in LogEvents("stmt") :
                     /\ state.log[n].list = state.log[e].list
                     /\ state.log[n].index = state.log[e].index + 1}
    IN IF later = {} THEN 0 ELSE CHOOSE n \in later : TRUE

(* C11: when statement k of a list fails to lower (it writes a diagnostic) *)
(* and leaves the current block without a terminator, statement k+1 of the *)
(* same list is lowered; a Return whose value fails to lower is one such   *)
(* statement.                                                              *)
C11_FailedStatementContinues ==
    Generated =>
        \A e \in LogEvents("stmt") :
            (/\ state.log[e].index < state.log[e].len
             /\ NextStmt(e) = 0)
            => ~(/\ state.log[ListEndOf(e)].diags > state.log[e].diags
                 /\ ~state.log[ListEndOf(e)].terminated)

(* an expression statement that failed with a diagnostic in a block that   *)
(* stayed open, and the next statement of the list lowered after it        *)
C11_Witness ==
    /\ Generated
    /\ \E e \in LogEvents("stmt") :
          /\ state.log[e].type = "FunctionCall"
          /\ NextStmt(e) # 0
          /\ state.log[NextStmt(e)].diags > state.log[e].diags
          /\ state.log[NextStmt(e)].block = state.log[e].block
          /\ state.log[NextStmt(e)].first = state.log[e].first

(* C12: print takes the value of its explicit expression when it has one,  *)
(* whatever the piped value is, and the piped value otherwise; with        *)
(* neither it writes one diagnostic, returns no value and emits neither a  *)
(* call nor a format string.                                               *)
C12_PrintArgument ==
    Generated =>
        \A e \in LogEvents("print") :
            LET ev == state.log[e]
                call == state.blocks[BlockOf(ev.call)].insts[PositionOf(ev.call)]
            IN /\ (ev.explicit /\ ev.expr.type = "Number")
                    => /\ ~ev.result_null
                       /\ call.op = "call"
                       /\ call.args[2] = ConstInt(I32, ev.expr.value)
               /\ (ev.explicit /\ ~ev.result_null /\ TypeOf(ev.arg).k = "int")
                    => call.args[2] = ev.arg
               /\ (~ev.explicit /\ ev.piped # NullVal)
                    => /\ ~ev.result_null
                       /\ ev.arg = ev.piped
                       /\ call.op = "call"
                       /\ TypeOf(ev.piped).k = "int" => call.args[2] = ev.piped
               /\ (~ev.explicit /\ ev.piped = NullVal)
                    => /\ ev.result_null
                       /\ ev.diags = 1
                       /\ ev.globals = 0
                       /\ ev.last < ev.first

(* a print of a literal in a loop body, where the piped value is the loop  *)
(* item, and in the same module a piped print that had nothing to print    *)
C12_Witness ==
    /\ Generated
    /\ \E e \in LogEvents("print") :
          /\ state.log[e].explicit
          /\ state.log[e].expr.type = "Number"
          /\ state.log[e].piped # NullVal
          /\ state.blocks[BlockOf(state.log[e].call)].insts[PositionOf(state.log[e].call)].args[2]
                = ConstInt(I32, state.log[e].expr.value)
    /\ \E e \in LogEvents("print") :
          /\ ~state.log[e].explicit
          /\ state.log[e].piped = NullVal
          /\ state.log[e].result_null

(* C13: after any number of print lowerings the module holds at most one   *)
(* format-string global of each kind.                                      *)
C13_FormatStringOncePerKind ==
    Generated =>
        \A kind \in {".fmt_int_ln", ".fmt_float_ln", ".fmt_str_ln", ".fmt_unknown_ln"} :
            Cardinality({g \in 1..Len(state.globals) : state.globals[g].name = kind}) <= 1

(* two prints of an integer were lowered, and each call has its own format *)
(* string as first operand                                                 *)
C13_Witness ==
    /\ Generated
    /\ \E e1 \in LogEvents("print") : \E e2 \in LogEvents("print") :
          /\ e1 < e2
          /\ ~state.log[e1].result_null
          /\ ~state.log[e2].result_null
          /\ state.log[e1].globals = 1
          /\ state.log[e2].globals = 1
          /\ state.blocks[BlockOf(state.log[e1].call)].insts[PositionOf(state.log[e1].call)].args[1]
                # state.blocks[BlockOf(state.log[e2].call)].insts[PositionOf(state.log[e2].call)].args[1]

(* C14: when codegen_func_def returns, at any nesting depth and whether or *)
(* not the body lowered, the insertion block, the current function and the *)
(* current scope are those of before the definition, and the statement     *)
(* after the definition is emitted into the enclosing function's block.    *)
C14_FuncDefRestores ==
    Generated =>
        /\ \A d \in LogEvents("func_def") :
              /\ state.log[d].block_after = state.log[d].block_before
              /\ state.log[d].func_after = state.log[d].func_before
              /\ state.log[d].scope_after = state.log[d].scope_before
        /\ \A e \in LogEvents("stmt") :
              (state.log[e].type = "FunctionDef" /\ NextStmt(e) # 0)
              => /\ state.log[NextStmt(e)].block = state.log[e].block
                 /\ state.log[NextStmt(e)].fn = state.log[e].fn

(* a definition nested in the body of another function whose own body      *)
(* failed to lower, and a definition followed by a statement that emitted  *)
(* an instruction into the block the definition was met in                 *)
C14_Witness ==
    /\ Generated
    /\ \E d \in LogEvents("func_def") :
          /\ state.log[d].failed
          /\ state.log[d].func_before > 1
          /\ state.log[d].block_before # 0
          /\ state.log[d].block_after = state.log[d].block_before
    /\ \E e \in LogEvents("stmt") :
          /\ state.log[e].type = "FunctionDef"
          /\ NextStmt(e) # 0
          /\ \E i \in 1..Len(state.blocks[state.log[e].block].insts) :
                state.blocks[state.log[e].block].insts[i].id >= state.log[NextStmt(e)].first

(* The instructions of kind ops that the statement of "stmt" event e       *)
(* emitted into block b, as positions in b: those numbered from the first  *)
(* instruction of the statement up to the next statement of the list, or   *)
(* to the return of the list.                                              *)
EmittedBy(e, b, ops) ==
    LET stop == IF NextStmt(e) # 0 THEN state.log[NextStmt(e)].first
                ELSE state.log[ListEndOf(e)].next_id
    IN {i \in 1..Len(state.blocks[b].insts) :
           /\ state.blocks[b].insts[i].op \in ops
           /\ state.blocks[b].insts[i].id >= state.log[e].first
           /\ state.blocks[b].insts[i].id < stop}

(* C15 as amended: in every block, every allocation, store and call of a   *)
(* statement precedes every store and call of a later statement of the     *)
(* same list (the slot of a variable first assigned by the later statement *)
(* is allocated at the front of the entry block, before them).             *)
C15_StoresAndCallsInSourceOrder ==
    Generated =>
        \A e1 \in LogEvents("stmt") : \A e2 \in LogEvents("stmt") :
            (/\ state.log[e1].list = state.log[e2].list
             /\ state.log[e1].index < state.log[e2].index)
            => \A b \in 1..Len(state.blocks) :
                  \A i1 \in EmittedBy(e1, b, {"alloca", "store", "call"}) :
                     \A i2 \in EmittedBy(e2, b, {"store", "call"}) : i1 < i2

(* C15: in every block, every allocation, store and call of a statement    *)
(* precedes every allocation, store and call of a later statement of the   *)
(* same list.                                                              *)
C15_SourceOrder ==
    Generated =>
        \A e1 \in LogEvents("stmt") : \A e2 \in LogEvents("stmt") :
            (/\ state.log[e1].list = state.log[e2].list
             /\ state.log[e1].index < state.log[e2].index)
            => \A b \in 1..Len(state.blocks) :
                  \A i1 \in EmittedBy(e1, b, {"alloca", "store", "call"}) :
                     \A i2 \in EmittedBy(e2, b, {"alloca", "store", "call"}) : i1 < i2

(* two assignments of one list store into the same block in source order,  *)
(* while the slot of the second stands before the slot of the first        *)
C15_Witness ==
    /\ Generated
    /\ \E e1 \in LogEvents("stmt") : \E e2 \in LogEvents("stmt") :
          /\ state.log[e1].list = state.log[e2].list
          /\ state.log[e1].index < state.log[e2].index
          /\ \E b \in 1..Len(state.blocks) :
                /\ \E i1 \in EmittedBy(e1, b, {"store"}) :
                      \E i2 \in EmittedBy(e2, b, {"store"}) : i1 < i2
                /\ \E i1 \in EmittedBy(e1, b, {"alloca"}) :
                      \E i2 \in EmittedBy(e2, b, {"alloca"}) : i2 < i1

(* C16: when llvm_generate_code returns, every function definition of the  *)
(* root statement list is a function of the module with a body, and its    *)
(* handle is the binding of its name in the global scope; every other      *)
(* statement of the root list has emitted instructions into `main` only.   *)
C16_RootDefinitionsEmitted ==
    (Generated /\ ast_root # NullNode) =>
        /\ \A k \in 1..Len(ast_root.statements) :
              ast_root.statements[k].type = "FunctionDef"
              => \E fi \in 1..Len(state.funcs) :
                    /\ state.funcs[fi].name = ast_root.statements[k].func_name
                    /\ Len(state.funcs[fi].blocks) > 0
                    /\ find_symbol(state.tables, state.global_symbols,
                                   ast_root.statements[k].func_name).value = FuncVal(fi)
        /\ \A e \in LogEvents("stmt") :
              (state.log[e].list = 1 /\ state.log[e].type # "FunctionDef")
              => \A b \in 1..Len(state.blocks) :
                    EmittedBy(e, b, {"alloca", "store", "load", "call", "ret", "retvoid",
                                     "br", "condbr", "phi"}) # {}
                    => state.funcs[state.blocks[b].parent].name = "main"

(* the root list holds a definition after a Return whose value failed to   *)
(* lower: main's block was still open when the list returned, and the      *)
(* module has no function of the definition's name                         *)
C16_Witness ==
    /\ Generated
    /\ ast_root # NullNode
    /\ \E e \in LogEvents("stmt") :
          /\ state.log[e].list = 1
          /\ state.log[e].type = "Return"
          /\ state.log[ListEndOf(e)].diags > state.log[e].diags
          /\ ~state.log[ListEndOf(e)].terminated
          /\ \E k \in (state.log[e].index + 1)..Len(ast_root.statements) :
                /\ ast_root.statements[k].type = "FunctionDef"
                /\ \A fi \in 1..Len(state.funcs) :
                      state.funcs[fi].name # ast_root.statements[k].func_name
                /\ find_symbol(state.tables, state.global_symbols,
                               ast_root.statements[k].func_name).scope = 0

(* The number of the terminator that ends block b, 0 when b is open *)
TerminatorOf(b) ==
    IF b # 0 /\ HasTerminator(state, b)
    THEN state.blocks[b].insts[Len(state.blocks[b].insts)].id
    ELSE 0

(* C17: no statement is lowered once the builder's block has a terminator: *)
(* every statement that was lowered began in a block that had none, and a  *)
(* list that stops before its last statement in a terminated block has     *)
(* emitted nothing after that terminator; so has every enclosing list that *)
(* goes on in that block.                                                  *)
C17_UnreachableDropped ==
    Generated =>
        /\ \A e \in LogEvents("stmt") :
              \A i \in 1..Len(state.blocks[state.log[e].block].insts) :
                  state.blocks[state.log[e].block].insts[i].op \in Terminators
                  => state.blocks[state.log[e].block].insts[i].id >= state.log[e].first
        /\ \A e \in LogEvents("stmt") :
              (/\ state.log[e].index < state.log[e].len
               /\ NextStmt(e) = 0
               /\ state.log[ListEndOf(e)].terminated)
              => /\ state.log[ListEndOf(e)].next_id
                      = TerminatorOf(state.log[ListEndOf(e)].block) + 1
                 /\ \A n \in LogEvents("stmt") :
                       state.log[n].list = state.log[e].list
                       => state.log[n].index <= state.log[e].index

(* a nested list returned, and the list around it, which had a statement   *)
(* left, stopped there: the module ends with that return                   *)
C17_Witness ==
    /\ Generated
    /\ \E e \in LogEvents("stmt") :
          /\ state.log[e].type = "StatementList"
          /\ state.log[e].index < state.log[e].len
          /\ NextStmt(e) = 0
          /\ state.log[ListEndOf(e)].terminated
          /\ state.log[ListEndOf(e)].next_id
                = TerminatorOf(state.log[ListEndOf(e)].block) + 1
          /\ state.log[ListEndOf(e)].blocks = Len(state.blocks)


(***************************************************************************)
(* C18: add_symbol on a scope that already binds the name replaces that    *)
(* binding's handle, type and is-parameter flag in place and leaves the    *)
(* entry count unchanged, whatever the state of the scope, a scope holding *)
(* SYMBOL_TABLE_SIZE entries included; on a scope that does not bind the   *)
(* name, and has room, it appends one entry.                               *)
(***************************************************************************)
AddedSymbol(op) ==
    Symbol(op.name, op.binding.value, op.binding.type, op.binding.is_param)

C18_RedefinitionInPlace ==
    [][\A st \in 1..Len(symtab) :
          (last_op'.op = "add" /\ last_op'.st = st)
          => LET i == EntryIndex(symtab[st].entries, last_op'.name)
             IN IF i # 0
                THEN symtab'[st].entries =
                         [symtab[st].entries EXCEPT ![i] = AddedSymbol(last_op')]
                ELSE Len(symtab[st].entries) < SYMBOL_TABLE_SIZE
                     => symtab'[st].entries =
                            Append(symtab[st].entries, AddedSymbol(last_op'))]_vars

(* a redefinition reached a full scope and the old binding is still there *)
C18_Witness ==
    /\ pc = "symtab"
    /\ last_op.op = "add"
    /\ last_op.overflow
    /\ EntryIndex(symtab[last_op.st].entries, last_op.name) # 0
    /\ symtab[last_op.st].entries[EntryIndex(symtab[last_op.st].entries,
                                             last_op.name)]
           # AddedSymbol(last_op)
    /\ Len(symtab[last_op.st].entries) = SYMBOL_TABLE_SIZE


(***************************************************************************)
(* C19: a scope never holds more than SYMBOL_TABLE_SIZE entries; add_symbol *)
(* of a name the scope does not bind, on a scope that is full, reports an  *)
(* overflow, changes no table and does not end the program, and find_symbol *)
(* of that name from that scope then gives what the parent chain gives.    *)
(***************************************************************************)
C19_OverflowRefused ==
    /\ [](\A st \in 1..Len(symtab) :
              Len(symtab[st].entries) <= SYMBOL_TABLE_SIZE)
    /\ [][\A st \in 1..Len(symtab) :
              (/\ last_op'.op = "add"
               /\ last_op'.st = st
               /\ EntryIndex(symtab[st].entries, last_op'.name) = 0
               /\ Len(symtab[st].entries) = SYMBOL_TABLE_SIZE)
              => /\ last_op'.overflow
                 /\ symtab' = symtab
                 /\ pc' = pc
                 /\ find_symbol(symtab', st, last_op'.name)
                        = find_symbol(symtab', symtab'[st].parent,
                                      last_op'.name)]_vars

(* a new name was refused by a full inner scope and resolves in its parent *)
C19_Witness ==
    /\ pc = "symtab"
    /\ last_op.op = "add"
    /\ last_op.overflow
    /\ Len(symtab[last_op.st].entries) = SYMBOL_TABLE_SIZE
    /\ EntryIndex(symtab[last_op.st].entries, last_op.name) = 0
    /\ find_symbol(symtab, last_op.st, last_op.name).scope
           \notin {0, last_op.st}


(***************************************************************************)
(* C20: a call resolves its callee in the global scope only.  Whatever the *)
(* innermost scope binds under the called name (a parameter, a local       *)
(* variable, a loop variable, or nothing), the callee is the function last *)
(* defined under that name; when no function of that name has been         *)
(* defined the call is reported as a call to an undefined function, also   *)
(* when a local scope binds the name.                                      *)
(***************************************************************************)
(* the user functions of name e.name created before the call e *)
DefinedBefore(e) ==
    {fi \in 2..e.funcs : state.funcs[fi].name = e.name}

LastDefined(e) ==
    CHOOSE fi \in DefinedBefore(e) : \A fj \in DefinedBefore(e) : fj <= fi

C20_CalleeFromGlobalScope ==
    pc = "generated"
    => \A k \in LogEvents("call") :
          LET e == state.log[k]
          IN IF DefinedBefore(e) # {}
             THEN /\ e.outcome \in {"emitted", "arity", "argfail"}
                  /\ e.callee = FuncVal(LastDefined(e))
             ELSE /\ e.outcome = "undefined"
                  /\ e.callee = NullVal

(* a call emitted to a function while the innermost scope chain binds the *)
(* function's name in a scope that is not the global scope                 *)
ShadowedCall(e) ==
    /\ e.outcome = "emitted"
    /\ e.local.scope \notin {0, e.global_scope}
    /\ e.local.value.kind = "alloca"
    /\ e.callee.kind = "func"

C20_Witness ==
    /\ pc = "generated"
    /\ \E k \in LogEvents("call") : ShadowedCall(state.log[k])


(***************************************************************************)
(* C21: in a chained pipeline (a |> b) |> c, operator b is lowered before  *)
(* operator c, the value handed to c is the value that lowering b with a   *)
(* as input returned, and when c is a call that is emitted with a value    *)
(* handed to it, the call's operands are that value followed by the        *)
(* explicit arguments of c in source order.                                *)
(***************************************************************************)
InstOf(id) == state.blocks[BlockOf(id)].insts[PositionOf(id)]

(* operand v of a call is what lowering the argument node arg gives: the   *)
(* literal's constant, a load of the name emitted after instruction lo, or *)
(* the handle of the function the name is bound to                         *)
LoweredArgument(arg, v, lo, hi) ==
    IF arg.type = "Number" THEN v = ConstInt(I32, arg.value)
    ELSE IF arg.type = "Identifier"
    THEN \/ /\ v.kind = "inst"
            /\ v.id \in lo..hi
            /\ InstOf(v.id).op = "load"
            /\ InstOf(v.id).name = arg.name
         \/ /\ v.kind = "func"
            /\ state.funcs[v.id].name = arg.name
    ELSE v.kind = "inst" /\ v.id \in lo..hi

(* the operands of call event c: the piped value, then the explicit        *)
(* arguments, each lowered after the one before it                         *)
PipedThenExplicit(c) ==
    LET ops == InstOf(c.call).args
    IN /\ Len(ops) = Len(c.args) + 1
       /\ ops[1] = c.piped_val
       /\ \A i \in 1..Len(c.args) :
             LoweredArgument(c.args[i], ops[i + 1], c.first, c.call - 1)
       /\ \A i, j \in 1..Len(c.args) :
             (i < j /\ ops[i + 1].kind = "inst" /\ ops[j + 1].kind = "inst")
             => ops[i + 1].id < ops[j + 1].id

C21_ChainedPipeline ==
    Generated =>
        \A k \in LogEvents("pipeline") :
            LET e == state.log[k]
            IN e.left = "Pipeline" =>
                  /\ state.log[e.left_end].ev = "pipeline"
                  /\ state.log[e.left_end].start = e.start
                  /\ e.piped_inside = state.log[e.left_end].result
                  /\ \A b \in e.start..(e.left_end - 1), c \in (e.left_end + 1)..(k - 1) :
                        (state.log[b].ev = "call" /\ state.log[c].ev = "call")
                        => state.log[b].last < state.log[c].first
                  /\ e.rhs = "FunctionCall" =>
                        /\ state.log[k - 1].ev = "call"
                        /\ state.log[k - 1].piped_val = state.log[e.left_end].result
                        /\ (state.log[k - 1].outcome = "emitted"
                            /\ state.log[k - 1].piped)
                           => PipedThenExplicit(state.log[k - 1])

(* (x |> f()) |> k(x, 2) emitted: k receives the value of the call of f,   *)
(* then the load of x, then the constant 2                                 *)
C21_Witness ==
    /\ Generated
    /\ \E k \in LogEvents("pipeline") :
          /\ state.log[k].left = "Pipeline"
          /\ state.log[k].rhs = "FunctionCall"
          /\ state.log[k - 1].ev = "call"
          /\ state.log[k - 1].outcome = "emitted"
          /\ Len(state.log[k - 1].args) = 2
          /\ state.log[k - 1].piped_val.kind = "inst"
          /\ InstOf(state.log[k - 1].piped_val.id).op = "call"
          /\ InstOf(state.log[k - 1].piped_val.id).name = "f"


(***************************************************************************)
(* C22: a conditional whose condition lowered leaves the builder at the    *)
(* end of a new, empty merge block of the current function; the block that *)
(* evaluated the condition ends in a conditional branch, true to the then  *)
(* block and false to the else block when there is an else list and to the *)
(* merge block when there is none; the last block of each arm ends in a    *)
(* branch to the merge block or in a terminator its own statements         *)
(* emitted; and the conditional has no value.                              *)
(***************************************************************************)
LastInst(b) == state.blocks[b].insts[Len(state.blocks[b].insts)]

(* block arm_end closes arm of conditional e, whose branch is instruction cbr *)
ArmClosed(e, arm_end, cbr) ==
    /\ arm_end # 0
    /\ HasTerminator(state, arm_end)
    /\ \/ LastInst(arm_end).op = "br" /\ LastInst(arm_end).blocks = <<e.merge_bb>>
       \/ /\ LastInst(arm_end).op \in {"ret", "retvoid"}
          /\ LastInst(arm_end).id \in (cbr + 1)..(e.next_id - 1)

C22_ConditionalShape ==
    Generated =>
        /\ \A k \in LogEvents("if_else") :
              LET e == state.log[k]
              IN /\ e.builder = e.merge_bb
                 /\ e.merge_insts = 0
                 /\ state.blocks[e.merge_bb].parent = e.fn
                 /\ e.merge_bb \notin {e.cond_block, e.then_bb, e.else_bb,
                                       e.then_end, e.else_end}
                 /\ HasTerminator(state, e.cond_block)
                 /\ LastInst(e.cond_block).op = "condbr"
                 /\ LastInst(e.cond_block).blocks[1] = e.then_bb
                 /\ LastInst(e.cond_block).blocks[2]
                        = (IF e.else_bb # 0 THEN e.else_bb ELSE e.merge_bb)
                 /\ \A b \in 1..Len(state.blocks) :
                       \A i \in 1..Len(state.blocks[b].insts) :
                          (\E t \in 1..Len(state.blocks[b].insts[i].blocks) :
                               state.blocks[b].insts[i].blocks[t] = e.merge_bb)
                          => state.blocks[b].insts[i].id >= LastInst(e.cond_block).id
                 /\ \A i \in 1..Len(state.blocks[e.merge_bb].insts) :
                       state.blocks[e.merge_bb].insts[i].id >= e.next_id
                 /\ ArmClosed(e, e.then_end, LastInst(e.cond_block).id)
                 /\ e.else_bb # 0
                    => /\ state.blocks[e.else_bb].parent = e.fn
                       /\ ArmClosed(e, e.else_end, LastInst(e.cond_block).id)
        /\ \A k \in LogEvents("pipeline") :
              state.log[k].rhs = "IfElse" => state.log[k].result = NullVal

(* a conditional whose then arm holds a piped conditional and falls        *)
(* through from that conditional's merge block, and whose else arm returns *)
C22_Witness ==
    /\ Generated
    /\ \E k \in LogEvents("if_else") :
          /\ state.log[k].else_bb # 0
          /\ state.log[k].then_end # state.log[k].then_bb
          /\ LastInst(state.log[k].then_end).op = "br"
          /\ LastInst(state.log[k].else_end).op \in {"ret", "retvoid"}
          /\ \E p \in LogEvents("pipeline"), j \in LogEvents("if_else") :
                /\ state.log[p].rhs = "IfElse"
                /\ state.log[p].start <= j
                /\ j < p
                /\ p < k
                /\ state.log[j].merge_bb = state.log[k].then_end


(***************************************************************************)
(* C23: the blocks emitted for `for range(start, end) each { body }`, with *)
(* a body that neither stores to the loop variable nor returns, run the    *)
(* body once for each i with start <= i < end, in ascending order, and not *)
(* at all when start >= end; the bounds are evaluated once, before the     *)
(* first test; and the run always reaches the end block, for bounds over   *)
(* the whole 32-bit signed range.                                          *)
(***************************************************************************)
(* how often the run entered block b *)
Visits(b) == Cardinality({i \in 1..Len(run.visits) : run.visits[i] = b})

FirstVisit(b) == CHOOSE i \in 1..Len(run.visits) :
                    run.visits[i] = b /\ \A j \in 1..(i - 1) : run.visits[j] # b

(* the values start, start + 1, ..., end - 1 *)
ItemsOf(start, end) ==
    IF end <= start THEN <<>>
    ELSE [i \in 1..(end - start) |-> start + (i - 1)]

(* the finished run of the loop e over start..end *)
LoopRan(e, start, end) ==
    /\ run.out = ItemsOf(start, end)
    /\ Visits(e.body) = Len(ItemsOf(start, end))
    /\ Visits(e.cond) = Len(ItemsOf(start, end)) + 1
    /\ Visits(e.end) = 1
    /\ run.block = e.end
    /\ \A v \in {e.start, e.stop} :
          v.kind = "inst" =>
             /\ Visits(BlockOf(v.id)) = 1
             /\ FirstVisit(BlockOf(v.id)) < FirstVisit(e.cond)

C23_LoopRuns ==
    /\ [](pc = "halted" =>
             /\ Cardinality(LogEvents("for_loop")) = 1
             /\ \A k \in LogEvents("for_loop") :
                   \A r \in LoopRanges, by_name \in BOOLEAN, body \in LoopBodies :
                      ast_root = LoopProgram(r[1], r[2], by_name, body)
                      => LoopRan(state.log[k], r[1], r[2]))
    /\ <>(pc = "halted")

(* three iterations up to the largest 32-bit value, the end bound read     *)
(* from a variable that the body overwrites                                *)
C23_Witness ==
    /\ pc = "halted"
    /\ ast_root = LoopProgram(INT_MAX - 3, INT_MAX, TRUE,
                     <<create_pipeline_node(Id("item"), create_print_call_node(NullNode)),
                       create_assignment_node("x", Num(0))>>)
    /\ run.out = <<INT_MAX - 3, INT_MAX - 2, INT_MAX - 1>>


(***************************************************************************)
(* C24: the phi of every `and` / `or` stands in the merge block and has    *)
(* two incoming edges, which are the two CFG predecessors of the merge     *)
(* block: the block current after the left operand, carrying false for and *)
(* and true for or, and the block current after the right operand,         *)
(* carrying the right operand as a 1-bit value; also when an operand is    *)
(* itself an and / or that created blocks.                                 *)
(***************************************************************************)
Predecessors(b) == {p \in 1..Len(state.blocks) : b \in Successors(p)}

PhiInstructions ==
    {id \in 1..(state.next_id - 1) :
        \E b \in 1..Len(state.blocks) :
            \E i \in 1..Len(state.blocks[b].insts) :
                state.blocks[b].insts[i].id = id /\ state.blocks[b].insts[i].op = "phi"}

(* incoming edge k of the phi of e comes from the left operand's block *)
IncomingLeft(e, k) ==
    /\ InstOf(e.phi).blocks[k] = e.evalL
    /\ InstOf(e.phi).args[k] = ConstInt(I1, IF e.op = "OP_AND" THEN 0 ELSE 1)

(* incoming edge k comes from the block current after the right operand,   *)
(* with the 1-bit conversion emitted there after the operand               *)
IncomingRight(e, k) ==
    /\ InstOf(e.phi).blocks[k] = e.revaluated
    /\ InstOf(e.phi).args[k].kind = "inst"
    /\ InstOf(e.phi).args[k].ty = I1
    /\ InstOf(InstOf(e.phi).args[k].id).op = "icmp_ne"
    /\ InstOf(InstOf(e.phi).args[k].id).id > e.last
    /\ BlockOf(InstOf(e.phi).args[k].id) = e.revaluated

C24_PhiPredecessors ==
    Generated =>
        /\ PhiInstructions = {state.log[k].phi : k \in LogEvents("shortcircuit")}
        /\ \A k \in LogEvents("shortcircuit") :
              LET e == state.log[k]
              IN /\ InstOf(e.phi).op = "phi"
                 /\ BlockOf(e.phi) = e.merge
                 /\ PositionOf(e.phi) = 1
                 /\ Len(InstOf(e.phi).blocks) = 2
                 /\ Len(InstOf(e.phi).args) = 2
                 /\ e.evalL # e.revaluated
                 /\ Predecessors(e.merge) = {e.evalL, e.revaluated}
                 /\ \/ IncomingLeft(e, 1) /\ IncomingRight(e, 2)
                    \/ IncomingLeft(e, 2) /\ IncomingRight(e, 1)

(* an and / or whose left operand and whose right operand each ended in a  *)
(* block other than the one it started in                                  *)
C24_Witness ==
    /\ Generated
    /\ \E k, j \in LogEvents("shortcircuit") :
          /\ j < k
          /\ state.log[k].evalL = state.log[j].merge
          /\ state.log[k].revaluated # state.log[k].evalR
          /\ Predecessors(state.log[k].merge)
                = {state.log[k].evalL, state.log[k].revaluated}


(***************************************************************************)
(* C25: an assignment whose target name resolves to a function handle is   *)
(* rejected: one diagnostic is written, no value is returned, no           *)
(* instruction (so no store and no allocation) and no global is emitted,   *)
(* the bindings of every scope are unchanged, and a call of the name       *)
(* lowered afterwards, before any new definition of it, still finds that   *)
(* function.                                                               *)
(***************************************************************************)
TargetsFunction(e) == e.found # 0 /\ e.target.kind = "func"

(* no definition of name is lowered between events k and j *)
NotRedefinedBetween(name, k, j) ==
    \A d \in LogEvents("func_def") :
        ~(state.log[d].name = name /\ k < d /\ d < j)

C25_FunctionNameNotAssignable ==
    pc = "generated"
    => \A k \in LogEvents("assign") :
          LET e == state.log[k]
          IN TargetsFunction(e)
             => /\ e.diags = 1
                /\ e.result = NullVal
                /\ e.next_id = e.first
                /\ e.globals = 0
                /\ e.bindings_after = e.bindings_before
                /\ \A j \in LogEvents("call") :
                      (/\ j > k
                       /\ state.log[j].name = e.name
                       /\ NotRedefinedBetween(e.name, k, j))
                      => /\ state.log[j].callee = e.target
                         /\ state.log[j].outcome
                               \in {"emitted", "arity", "argfail"}

(* a rejected assignment to f followed by an emitted call of f *)
C25_Witness ==
    /\ pc = "generated"
    /\ \E k \in LogEvents("assign"), j \in LogEvents("call") :
          /\ TargetsFunction(state.log[k])
          /\ j > k
          /\ state.log[j].name = state.log[k].name
          /\ state.log[j].outcome = "emitted"
          /\ state.log[j].callee = state.log[k].target


(***************************************************************************)
(* C26: in one function-level scope (the assignments lowered while that    *)
(* scope is current, so none inside a loop body), the successful           *)
(* assignments to one name allocate one stack slot when the first of them  *)
(* finds the name unbound, that first assignment being the one that        *)
(* allocates, and none when the name is already bound as a parameter;      *)
(* every later assignment stores to the slot of the first, every later     *)
(* identifier use in that scope reads it, and each successful assignment   *)
(* emits one store of the lowered right-hand value, which it returns.      *)
(***************************************************************************)
(* the successful assignments to name lowered while function-level scope   *)
(* s was current                                                           *)
AssignmentsTo(s, name) ==
    {k \in LogEvents("assign") :
        /\ state.log[k].scope = s
        /\ state.log[k].name = name
        /\ state.log[k].result # NullVal
        /\ state.tables[s].parent = state.global_symbols}

AssignedNames == {"x", "y", "f"}

(* the instructions assignment event e emitted after its right-hand side *)
EmittedByAssignment(e, op) ==
    {id \in e.first..(e.next_id - 1) : InstOf(id).op = op}

(* one store, of the value lowered from the right-hand side, to the slot *)
StoresRightHandSide(k) ==
    LET e == state.log[k]
    IN /\ Cardinality(EmittedByAssignment(e, "store")) = 1
       /\ InstOf(e.next_id - 1).op = "store"
       /\ InstOf(e.next_id - 1).args = <<e.result, e.slot>>
       /\ e.expression.type \in {"Number", "Identifier"}
          => LoweredArgument(e.expression, e.result, 1, e.first - 1)

(* every assignment after the first, and every use of the name after the   *)
(* first in scope s, resolves to the slot of the first                     *)
SameSlotAfter(s, name, k) ==
    /\ \A j \in AssignmentsTo(s, name) :
          j > k => /\ state.log[j].slot = state.log[k].slot
                   /\ EmittedByAssignment(state.log[j], "alloca") = {}
    /\ \A i \in LogEvents("ident") :
          (i > k /\ state.log[i].name = name /\ state.log[i].from = s)
          => state.log[i].value = state.log[k].slot

FirstAssignment(s, name) ==
    CHOOSE k \in AssignmentsTo(s, name) : \A j \in AssignmentsTo(s, name) : k <= j

C26_OneSlotPerName ==
    pc = "generated"
    => \A s \in 1..Len(state.tables), name \in AssignedNames :
          AssignmentsTo(s, name) # {}
          => LET k == FirstAssignment(s, name)
             IN /\ state.log[k].slot.kind = "alloca"
                /\ Cardinality(EmittedByAssignment(state.log[k], "alloca"))
                      = (IF state.log[k].found = 0 THEN 1 ELSE 0)
                /\ state.log[k].found = 0
                   => state.log[k].slot.id \in EmittedByAssignment(state.log[k], "alloca")
                /\ SameSlotAfter(s, name, k)
                /\ \A j \in AssignmentsTo(s, name) : StoresRightHandSide(j)

(* the statement without the case of a bound name: the first successful   *)
(* assignment of every sequence allocates the slot                         *)
C26_FirstAssignmentAllocates ==
    pc = "generated"
    => \A s \in 1..Len(state.tables), name \in AssignedNames :
          AssignmentsTo(s, name) # {}
          => Cardinality(EmittedByAssignment(state.log[FirstAssignment(s, name)],
                                             "alloca")) = 1

(* two assignments to a name first bound by the first of them, and a use   *)
(* of the name after both                                                  *)
C26_Witness ==
    /\ pc = "generated"
    /\ \E s \in 1..Len(state.tables), name \in AssignedNames :
          /\ Cardinality(AssignmentsTo(s, name)) >= 2
          /\ state.log[FirstAssignment(s, name)].found = 0
          /\ \E i \in LogEvents("ident") :
                /\ state.log[i].name = name
                /\ state.log[i].from = s
                /\ \A j \in AssignmentsTo(s, name) : j < i


(***************************************************************************)
(* C27: the handle of a function is bound in the global scope from before  *)
(* its body is lowered, and is still bound there when generation ends and  *)
(* the function's own scope has been freed, wherever the definition is: a  *)
(* call of the name lowered inside the function's body, and every call of  *)
(* the name lowered after the definition, finds a function of that name;   *)
(* a call of a name lowered before every definition of that name is        *)
(* reported as a call to an undefined function.                            *)
(***************************************************************************)
Resolved(c) ==
    /\ c.outcome \in {"emitted", "arity", "argfail"}
    /\ c.callee.kind = "func"
    /\ state.funcs[c.callee.id].name = c.name

StillRegistered(d) ==
    LET sym == find_symbol(state.tables, state.global_symbols, d.name)
    IN /\ sym.scope = state.global_symbols
       /\ sym.value.kind = "func"
       /\ sym.value.id >= d.fn
       /\ state.funcs[sym.value.id].name = d.name

C27_RegisteredBeforeBody ==
    pc = "generated"
    => /\ \A k \in LogEvents("func_def") :
             LET d == state.log[k]
             IN /\ StillRegistered(d)
                /\ state.tables[d.fnscope].freed
                /\ \A j \in LogEvents("call") :
                      (/\ state.log[j].name = d.name
                       /\ state.log[j].fn = d.fn \/ j > k)
                      => Resolved(state.log[j])
       /\ \A j \in LogEvents("call") :
             (\A k \in LogEvents("func_def") :
                 state.log[k].name = state.log[j].name
                 => j < k /\ state.log[j].fn # state.log[k].fn)
             => state.log[j].outcome = "undefined"

(* h is defined inside another function than the one its callers are in:   *)
(* the call before the definition is undefined, the call in h's own body   *)
(* and the call after the definition are emitted                           *)
C27_Witness ==
    /\ pc = "generated"
    /\ \E k \in LogEvents("func_def"), c0, c1, c2 \in LogEvents("call") :
          /\ c0 < c1 /\ c1 < k /\ k < c2
          /\ state.log[c0].name = state.log[k].name
          /\ state.log[c1].name = state.log[k].name
          /\ state.log[c2].name = state.log[k].name
          /\ state.log[c0].outcome = "undefined"
          /\ state.log[c1].fn = state.log[k].fn
          /\ state.log[c1].outcome = "emitted"
          /\ state.log[c2].outcome = "emitted"
          /\ state.log[c2].fn = state.log[c0].fn
          /\ state.log[k].func_before # state.log[c2].fn


(***************************************************************************)
(* C28: when a function definition is lowered while the piped-value slot   *)
(* holds a value, no instruction of the new function has an operand that   *)
(* was produced in another function, and a print without an argument in    *)
(* the new function's body never prints the value the slot held when the   *)
(* definition was entered: it prints the left value of its own pipeline,   *)
(* or nothing when that pipeline's left side has no value.                 *)
(***************************************************************************)
(* the instructions of function fn *)
InstructionsOf(fn) ==
    {id \in 1..(state.next_id - 1) :
        \E b \in 1..Len(state.blocks) :
            /\ state.blocks[b].parent = fn
            /\ \E i \in 1..Len(state.blocks[b].insts) : state.blocks[b].insts[i].id = id}

ProducedByInstruction(v) == v.kind \in {"inst", "alloca"}

OperandsFromOwnFunction(fn) ==
    \A id \in InstructionsOf(fn) :
        \A a \in 1..Len(InstOf(id).args) :
            ProducedByInstruction(InstOf(id).args[a])
            => InstOf(id).args[a].id \in InstructionsOf(fn)

C28_NestedBodyIgnoresPipedValue ==
    pc = "generated"
    => \A k \in LogEvents("func_def") :
          LET d == state.log[k]
          IN d.piped_on_entry # NullVal
             => /\ OperandsFromOwnFunction(d.fn)
                /\ \A p \in LogEvents("print") :
                      (/\ p < k
                       /\ state.log[p].fn = d.fn
                       /\ ~state.log[p].explicit
                       /\ ProducedByInstruction(d.piped_on_entry))
                      => state.log[p].arg # d.piped_on_entry

(* a function defined in a loop body (the slot holds the loop item) whose   *)
(* body pipes a side without a value into print(): the print reports that  *)
(* it has no argument and emits nothing                                    *)
C28_Witness ==
    /\ pc = "generated"
    /\ \E k \in LogEvents("func_def"), p \in LogEvents("print") :
          /\ p < k
          /\ ProducedByInstruction(state.log[k].piped_on_entry)
          /\ state.log[p].fn = state.log[k].fn
          /\ ~state.log[p].explicit
          /\ state.log[p].piped = NullVal
          /\ state.log[p].arg = NullVal
          /\ state.log[p].diags = 1
          /\ state.log[p].last < state.log[p].first


(***************************************************************************)
(* C29: a call that is not the right operand of a pipeline is handed no    *)
(* piped input, whatever the piped-value slot holds: its arity is checked  *)
(* against the number of its explicit arguments, and when it is emitted    *)
(* its operands are its explicit arguments, lowered in source order, and   *)
(* nothing else.                                                           *)
(***************************************************************************)
(* the calls lowered by codegen_pipeline as its right operand *)
DirectPipedCalls ==
    {k - 1 : k \in {p \in LogEvents("pipeline") : state.log[p].rhs = "FunctionCall"}}

ExplicitOnly(c) ==
    LET ops == InstOf(c.call).args
    IN /\ Len(ops) = Len(c.args)
       /\ c.expected = Len(c.args)
       /\ \A i \in 1..Len(c.args) : LoweredArgument(c.args[i], ops[i], c.first, c.call - 1)

C29_NoImplicitPipedArgument ==
    pc = "generated"
    => \A k \in LogEvents("call") \ DirectPipedCalls :
          LET c == state.log[k]
          IN /\ c.piped_val = NullVal
             /\ c.outcome = "arity" <=> (c.callee.kind = "func" /\ c.expected # c.explicit)
             /\ c.outcome = "emitted" => ExplicitOnly(c)

(* x |> k(f(1), 2): the call of f is an argument of a piped call, lowered   *)
(* while the slot holds the load of x, and is emitted with its one         *)
(* argument; its value is the second operand of the call of k              *)
C29_Witness ==
    /\ pc = "generated"
    /\ \E k \in LogEvents("call") \ DirectPipedCalls, j \in DirectPipedCalls :
          /\ k < j
          /\ state.log[k].slot.kind = "inst"
          /\ state.log[k].outcome = "emitted"
          /\ state.log[k].explicit = 1
          /\ state.log[j].outcome = "emitted"
          /\ state.log[j].piped_val = state.log[k].slot
          /\ InstOf(state.log[j].call).args[2] = InstVal(state.log[k].call, I32)


(***************************************************************************)
(* C30: when the left side of a pipeline has no value (a Range, a pipeline *)
(* that ends in a conditional, an expression that failed to lower) and the *)
(* right operand is a call with k explicit arguments of a defined          *)
(* function, the call is reported as an arity error exactly when the       *)
(* function does not have k parameters, and when it is emitted its         *)
(* operands are its k explicit arguments and nothing else.                 *)
(***************************************************************************)
(* the pipelines without a left value whose right operand is a call *)
ValuelessPipedCalls ==
    {k \in LogEvents("pipeline") :
        state.log[k].rhs = "FunctionCall" /\ state.log[k].left_null}

C30_NoValueNoPipedArgument ==
    pc = "generated"
    => \A k \in ValuelessPipedCalls :
          LET c == state.log[k - 1]
          IN /\ c.ev = "call"
             /\ ~c.piped
             /\ c.callee.kind = "func"
                => /\ c.outcome = "arity" <=> c.expected # c.explicit
                   /\ c.expected = c.explicit => c.outcome \in {"emitted", "argfail"}
             /\ c.outcome = "emitted" => ExplicitOnly(c)

(* (1 |> if 1 { }) |> f(1): the left side is a pipeline that ends in a     *)
(* conditional, and the call of the one-parameter function f is emitted    *)
(* with its one explicit argument alone                                    *)
C30_Witness ==
    /\ pc = "generated"
    /\ \E k \in ValuelessPipedCalls :
          /\ state.log[k].left = "Pipeline"
          /\ state.log[state.log[k].left_end].rhs = "IfElse"
          /\ state.log[k - 1].outcome = "emitted"
          /\ state.log[k - 1].explicit = 1
          /\ InstOf(state.log[k - 1].call).args = <<ConstInt(I32, 1)>>

====
